---- MODULE Spec2Model ----
(***************************************************************************)
(* Model of the activation capture and storage engine of the microscope    *)
(* crate: the ActivationTracer session (activation.rs) and the             *)
(* ActivationStorage chunk store (streaming.rs).                           *)
(*                                                                         *)
(* Spec      the tracer driven through its public interface by one caller  *)
(* SpecConc  the tracer with several producers inside record(), the        *)
(*           RwLock made explicit, and writers that abort holding it       *)
(* SpecStore the chunk store: store / flush / load                         *)
(***************************************************************************)
EXTENDS Integers, Sequences, FiniteSets, TLC

(***************************************************************************)
(* Bounds of the model.                                                    *)
(***************************************************************************)
\* the layer count handed to ActivationTracer::new
NumLayers == 1
\* producer threads that may be inside record() at once (SpecConc)
NumProducers == 2
\* chunks stored under one (layer, component) key (SpecStore)
MaxChunks == 2
\* store calls that fail with an I/O error
MaxFailures == 1
\* capacity of a ring buffer
MaxCapacity == 3

(***************************************************************************)
(* Values.  Option<T> is a sequence of length 0 or 1.                      *)
(***************************************************************************)
None == << >>
Some(v) == << v >>

\* Component names handed to record(); the tracer does not restrict them.
Components == {"residual", "attn_out"}

\* Layer indices handed to record(): the valid ones and the first invalid one.
LayerArgs == 0 .. NumLayers

Pairs == LayerArgs \X Components

(***************************************************************************)
(* An f32 is its four bytes, most significant first:                       *)
(*   1.0 = 3F800000, -0.0 = 80000000, NaN = 7FC00000, pi = 40490FDB        *)
(* An Array3<f32>: its shape, the order of its elements in memory ("C" is  *)
(* ndarray's standard layout, "F" is column-major, which an owned array    *)
(* keeps when it is made from a column-major view) and the elements in     *)
(* memory order.                                                           *)
(***************************************************************************)
FOne == <<63, 128, 0, 0>>
FNegZero == <<128, 0, 0, 0>>
FNaN == <<127, 192, 0, 0>>
FPi == <<64, 73, 15, 219>>

TensorA == [shape |-> <<1, 1, 2>>, order |-> "C", raw |-> <<FOne, FNegZero>>]
TensorB == [shape |-> <<1, 2, 2>>, order |-> "F", raw |-> <<FPi, FOne, FNegZero, FNaN>>]
TensorC == [shape |-> <<1, 2, 1>>, order |-> "C", raw |-> <<FPi, FNaN>>]

\* Tensors handed to record()
Tensors == {TensorA, TensorB}

\* (architecture, input_tokens) handed to start_trace()
StartArgs == {<<"llama", <<1, 2, 3>>>>, <<"gpt2", << >>>>}

\* ndarray: ArrayBase::shape().to_vec()
ShapeOf(t) == t.shape

\* ndarray: Array::into_raw_vec(): the elements as they are stored in memory
IntoRawVec(t) == t.raw

\* Activation::new
ActivationNew(layer, component, data) ==
    [layer |-> layer, component |-> component,
     shape |-> ShapeOf(data), data |-> IntoRawVec(data)]

\* the HashMap key built by ActivationTrace::add and ::get
TraceKey_noSeparator(layer, component) == ToString(layer) \o component

TraceKey(layer, component) == ToString(layer) \o "_" \o component

EmptyMap == [k \in {} |-> None]

\* HashMap::insert
MapInsert(m, k, v) == [x \in DOMAIN m \cup {k} |-> IF x = k THEN v ELSE m[x]]

\* ActivationTrace::new
TraceNew(architecture, input_tokens) ==
    [activations |-> EmptyMap, input_tokens |-> input_tokens,
     architecture |-> architecture]

\* ActivationTrace::add
TraceAdd_keepFirst(trace, activation) ==
    LET key == TraceKey(activation.layer, activation.component)
    IN  IF key \in DOMAIN trace.activations THEN trace
        ELSE [trace EXCEPT !.activations = MapInsert(@, key, activation)]

TraceAdd(trace, activation) ==
    LET key == TraceKey(activation.layer, activation.component)
    IN  [trace EXCEPT !.activations = MapInsert(@, key, activation)]

\* ActivationTrace::get
TraceGet(trace, layer, component) ==
    LET key == TraceKey(layer, component)
    IN  IF key \in DOMAIN trace.activations
        THEN Some(trace.activations[key]) ELSE None

(***************************************************************************)
(* State.                                                                  *)
(*   num_layers, enabled, current_trace   the fields of ActivationTracer;  *)
(*                   current_trace is the Option<ActivationTrace> behind   *)
(*                   the RwLock                                            *)
(*   poisoned        the poison flag of that RwLock                        *)
(*   held            the caller: the trace the last successful stop_trace  *)
(*                   gave it.  moved says that the value was moved out of  *)
(*                   the tracer and lives with the caller alone; a handle  *)
(*                   that was not moved still names the tracer's cell      *)
(*   last            the caller: the last call and what it returned        *)
(*   started         the arguments of the last start_trace, and whether it *)
(*                   replaced a trace that held activations                *)
(*   expected        per (layer, component): the last tensor a record      *)
(*                   call added since the last start_trace                 *)
(*   idle_recorded   a record call ran while disabled since the last       *)
(*                   start_trace                                           *)
(* and for the producers of SpecConc, each a thread calling record():      *)
(*   lock            the producer that holds the write lock of the RwLock  *)
(*   pc              where each producer is in record()                    *)
(*   arg             the arguments of the producer's call in flight        *)
(*   snap            the cell as the producer found it behind its guard    *)
(*   res             what the producer's last call returned, or where it   *)
(*                   panicked                                              *)
(*   after_poison    since the last start_trace, a trace.add ran behind a  *)
(*                   guard that came out of a PoisonError                  *)
(***************************************************************************)
VARIABLES num_layers, enabled, current_trace, poisoned,
          held, last, started, expected, idle_recorded,
          lock, pc, arg, snap, res, after_poison

(***************************************************************************)
(* State of the chunk store.                                               *)
(*   config          the StreamingConfig: capture_layers and               *)
(*                   capture_components                                    *)
(*   metadata, offsets, writers   the maps of ActivationStorage, by key;   *)
(*                   a writer is an open File: its path and its position   *)
(*   files           the files under storage_dir: path -> bytes            *)
(*   stored          per (layer, component): the tensors and token ranges  *)
(*                   of the store calls that were not filtered out         *)
(*   unflushed       a store call was accepted since the last flush        *)
(*   io              the last call on the store and what it returned       *)
(*   failures        how many store calls have failed with an I/O error    *)
(***************************************************************************)
VARIABLES config, metadata, offsets, writers, files, stored, unflushed, io,
          failures

sessionVars == <<num_layers, enabled, current_trace, poisoned>>
callerVars == <<held, last, started, expected, idle_recorded>>
concVars == <<lock, pc, arg, snap, res, after_poison>>
tracerVars == <<sessionVars, callerVars, concVars>>
storeVars == <<config, metadata, offsets, writers, files, stored, unflushed, io,
               failures>>

(***************************************************************************)
(* State of the ring buffer.                                               *)
(*   buffer, write_pos, count   the fields of ActivationRingBuffer         *)
(*   pushed          the tensors pushed since construction or the last     *)
(*                   clear, oldest first                                   *)
(*   rb              the last call on the ring buffer and what it returned *)
(***************************************************************************)
VARIABLES buffer, write_pos, count, pushed, rb

ringVars == <<buffer, write_pos, count, pushed, rb>>

(***************************************************************************)
(* State of the memory estimator, which has no fields of its own.          *)
(*   overflow_checks   whether the build checks integer overflow (it       *)
(*                     panics) or wraps around                             *)
(*   me                a call on MemoryEstimator: the function, its        *)
(*                     arguments and, once it has returned, its result     *)
(***************************************************************************)
VARIABLES overflow_checks, me

estimatorVars == <<overflow_checks, me>>

(***************************************************************************)
(* The component allow-list of the tracer.                                 *)
(*   capture_components   the field of ActivationTracer                    *)
(*   given                the list handed to the last call of              *)
(*                        set_capture_components, if there was one         *)
(***************************************************************************)
VARIABLES capture_components, given

captureVars == <<capture_components, given>>

(***************************************************************************)
(* An Activation and its accessors.                                        *)
(*   act             the Activation: its shape and data as it was          *)
(*                   deserialized or as its public shape was set           *)
(*   acc             the last accessor called on it and what it returned   *)
(***************************************************************************)
VARIABLES act, acc

accessVars == <<act, acc>>

(***************************************************************************)
(* State of the hook registry.                                             *)
(*   hooks, by_hook_point, registry_enabled   the fields of HookRegistry   *)
(*                   (registry_enabled is its field `enabled`)             *)
(*   registrations   the register calls made, in order                     *)
(*   hr              the last call on the registry and what it returned;   *)
(*                   for execute also the hooks it invoked, in order       *)
(***************************************************************************)
VARIABLES hooks, by_hook_point, registry_enabled, registrations, hr

hookVars == <<hooks, by_hook_point, registry_enabled, registrations, hr>>

\* the components the tracer calls do not touch
others == <<estimatorVars, accessVars, hookVars>>

\* what the calls on one component leave alone; start_trace, stop_trace and
\* record leave the allow-list alone
tracerFrame == <<storeVars, ringVars, others, captureVars>>
storeFrame == <<tracerVars, ringVars, others, captureVars>>
ringFrame == <<tracerVars, storeVars, others, captureVars>>
estimatorFrame == <<tracerVars, storeVars, ringVars, captureVars, accessVars, hookVars>>
captureFrame == <<storeVars, ringVars, others>>
accessFrame == <<tracerVars, storeVars, ringVars, captureVars, estimatorVars, hookVars>>
hookFrame == <<tracerVars, storeVars, ringVars, captureVars, estimatorVars, accessVars>>

vars == <<tracerVars, storeVars, ringVars, estimatorVars, captureVars, accessVars,
          hookVars>>

Producers == 1 .. NumProducers

NoExpected == [p \in Pairs |-> None]

Ok == <<"Ok">>
LayerNotFound(layer, total) == <<"LayerNotFound", layer, total>>
LockError == <<"LockPoisoned">>

\* a call as the caller saw it: the operation, the layer it named, whether the
\* session was enabled when it was made, whether it overwrote a key, what it
\* returned, and (for stop_trace) whether the call before it was a stop_trace
Call(op, layer, active, dup, result) ==
    [op |-> op, layer |-> layer, active |-> active, dup |-> dup, result |-> result,
     again |-> (op = "stop_trace" /\ last.op = "stop_trace")]

NothingHeld == [moved |-> TRUE, trace |-> None]

\* the trace the caller sees through the handle it holds
HeldTrace == IF held.moved THEN held.trace ELSE current_trace

\* ActivationTracer::new
TracerNew(n) ==
    /\ num_layers = n
    /\ enabled = FALSE
    /\ current_trace = None
    /\ poisoned = FALSE
    /\ capture_components = <<"residual", "attn_out", "mlp_out">>

CallerInit ==
    /\ given = None
    /\ held = NothingHeld
    /\ last = [op |-> "new", layer |-> 0, active |-> FALSE, dup |-> FALSE,
               result |-> Ok, again |-> FALSE]
    /\ started = None
    /\ expected = NoExpected
    /\ idle_recorded = FALSE

ConcInit ==
    /\ lock = None
    /\ pc = [p \in Producers |-> "idle"]
    /\ arg = [p \in Producers |-> None]
    /\ snap = [p \in Producers |-> None]
    /\ res = [p \in Producers |-> None]
    /\ after_poison = FALSE

InitTracer == TracerNew(NumLayers) /\ CallerInit /\ ConcInit

(***************************************************************************)
(* RwLock::write(): Ok(guard), or Err(PoisonError) once a writer has       *)
(* panicked holding the lock.                                              *)
(***************************************************************************)
LockWrite(p) == IF p THEN "Err" ELSE "Ok"

\* the match of start_trace, stop_trace and record on the result of write():
\* Ok(guard) => guard, Err(poisoned) => poisoned.into_inner()
Recover_unwrap(r) == IF r = "Ok" THEN "guard" ELSE "panic"

Recover(r) == IF r = "Ok" THEN "guard" ELSE "guard"

\* Option::take on the cell behind the guard: the value is moved out and None
\* is left
TakeCell_peek(cell) == [value |-> cell, cell |-> cell, moved |-> FALSE]

TakeCell(cell) == [value |-> cell, cell |-> None, moved |-> TRUE]

\* *guard = Some(trace) in start_trace: the cell holds the new trace, whatever
\* it held
StoreCell_keepOld(cell, trace) == IF cell # None THEN cell ELSE Some(trace)

StoreCell(cell, trace) == Some(trace)

\* the early returns of record(): the enabled check, then the bounds check
RecordCheck_boundsFirst(en, n, layer) ==
    IF layer >= n THEN "LayerNotFound"
    ELSE IF ~en THEN "ReturnOk" ELSE "Proceed"

RecordCheck(en, n, layer) ==
    IF ~en THEN "ReturnOk"
    ELSE IF layer >= n THEN "LayerNotFound" ELSE "Proceed"

\* the critical section of record(): if let Some(ref mut trace) = *guard
\* { trace.add(activation) }, as the new value of the cell
GuardedAdd(cell, activation) ==
    IF cell # None THEN Some(TraceAdd(cell[1], activation)) ELSE cell

\* the cell after record() has returned LayerNotFound: the return comes
\* before the lock is taken
Rejected_added(cell, activation) ==
    IF cell # None THEN Some(TraceAdd(cell[1], activation)) ELSE cell

Rejected(cell, activation) == cell

\* the cell holds a trace with at least one activation
HoldsActivations(cell) == cell # None /\ DOMAIN cell[1].activations # {}

\* the key of (layer, component) is already in the trace of the cell
IsDuplicate(cell, layer, component) ==
    cell # None /\ TraceKey(layer, component) \in DOMAIN cell[1].activations

(***************************************************************************)
(* The public interface, one caller (Spec).  start_trace and stop_trace    *)
(* take &mut self, so no record call is in flight while they run.          *)
(***************************************************************************)
\* ActivationTracer::start_trace
StartTrace(architecture, input_tokens) ==
    LET trace == TraceNew(architecture, input_tokens)
        guard == Recover(LockWrite(poisoned))
    IN  /\ IF guard = "guard"
           THEN /\ current_trace' = StoreCell(current_trace, trace)
                /\ enabled' = TRUE
                /\ last' = Call("start_trace", 0, enabled, FALSE, Ok)
                /\ started' = Some([architecture |-> architecture,
                                    input_tokens |-> input_tokens,
                                    discarded |-> HoldsActivations(current_trace)])
                /\ expected' = NoExpected
                /\ idle_recorded' = FALSE
                /\ res' = [p \in Producers |-> IF pc[p] = "dead" THEN res[p] ELSE None]
                /\ after_poison' = FALSE
           ELSE /\ last' = Call("start_trace", 0, enabled, FALSE, LockError)
                /\ UNCHANGED <<current_trace, enabled, started, expected,
                               idle_recorded, res, after_poison>>
        /\ UNCHANGED <<tracerFrame, num_layers, poisoned, held, lock, pc, arg, snap>>

\* ActivationTracer::stop_trace; the caller keeps the trace it is given in
\* place of the one it held
StopTrace ==
    LET guard == Recover(LockWrite(poisoned))
        taken == TakeCell(current_trace)
    IN  /\ enabled' = FALSE
        /\ IF guard = "guard"
           THEN /\ current_trace' = taken.cell
                /\ IF taken.value # None
                   THEN /\ held' = [moved |-> taken.moved, trace |-> taken.value]
                        /\ last' = Call("stop_trace", 0, enabled, FALSE, <<"Some">>)
                   ELSE /\ last' = Call("stop_trace", 0, enabled, FALSE, <<"None">>)
                        /\ UNCHANGED held
           ELSE /\ last' = Call("stop_trace", 0, enabled, FALSE, LockError)
                /\ UNCHANGED <<current_trace, held>>
        /\ UNCHANGED <<tracerFrame, num_layers, poisoned, started, expected, idle_recorded,
                       concVars>>

\* ActivationTracer::is_enabled
IsEnabled_everStarted == started # None

IsEnabled == enabled

\* ActivationTracer::record, run by one caller from call to return
Record(layer, component, data) ==
    LET check == RecordCheck(enabled, num_layers, layer)
        activation == ActivationNew(layer, component, data)
        guard == Recover(LockWrite(poisoned))
        dup == IsDuplicate(current_trace, layer, component)
    IN  /\ idle_recorded' = (idle_recorded \/ ~enabled)
        /\ CASE check = "ReturnOk" ->
                  /\ last' = Call("record", layer, enabled, FALSE, Ok)
                  /\ UNCHANGED <<current_trace, expected>>
             [] check = "LayerNotFound" ->
                  /\ last' = Call("record", layer, enabled, FALSE,
                                  LayerNotFound(layer, num_layers))
                  /\ current_trace' = Rejected(current_trace, activation)
                  /\ UNCHANGED expected
             [] OTHER ->
                  IF guard = "guard"
                  THEN /\ current_trace' = GuardedAdd(current_trace, activation)
                       /\ expected' = IF current_trace # None
                                      THEN [expected EXCEPT ![<<layer, component>>] = Some(data)]
                                      ELSE expected
                       /\ last' = Call("record", layer, enabled, dup, Ok)
                  ELSE /\ last' = Call("record", layer, enabled, FALSE, LockError)
                       /\ UNCHANGED <<current_trace, expected>>
        /\ UNCHANGED <<tracerFrame, num_layers, enabled, poisoned, held, started, concVars>>

\* the caller drops the trace stop_trace gave it
DropReturned ==
    /\ held # NothingHeld
    /\ held' = NothingHeld
    /\ last' = Call("drop", 0, enabled, FALSE, Ok)
    /\ UNCHANGED <<tracerFrame, sessionVars, started, expected, idle_recorded, concVars>>

\* the lists handed to set_capture_components and the names asked of
\* should_capture
CaptureLists == {<< >>, <<"residual">>, <<"mlp_out", "residual", "mlp_out">>}
CaptureNames == Components \cup {"mlp_out"}

\* ActivationTracer::set_capture_components
SetCaptureComponents(components) ==
    /\ capture_components' = components
    /\ given' = Some(components)
    /\ last' = Call("set_capture_components", 0, enabled, FALSE, Ok)
    /\ UNCHANGED <<captureFrame, sessionVars, held, started, expected, idle_recorded,
                   concVars>>

\* ActivationTracer::should_capture; the result is <<component, bool>>
ShouldCapture_whenActive(component) ==
    /\ last' = Call("should_capture", 0, enabled, FALSE,
                    <<component,
                      enabled /\ \E i \in DOMAIN capture_components :
                                    capture_components[i] = component>>)
    /\ UNCHANGED <<captureFrame, captureVars, sessionVars, held, started, expected,
                   idle_recorded, concVars>>

ShouldCapture(component) ==
    /\ last' = Call("should_capture", 0, enabled, FALSE,
                    <<component,
                      \E i \in DOMAIN capture_components :
                          capture_components[i] = component>>)
    /\ UNCHANGED <<captureFrame, captureVars, sessionVars, held, started, expected,
                   idle_recorded, concVars>>

Next ==
    \/ \E a \in StartArgs : StartTrace(a[1], a[2])
    \/ StopTrace
    \/ \E layer \in LayerArgs, component \in Components, data \in Tensors :
          Record(layer, component, data)
    \/ DropReturned

(***************************************************************************)
(* Several producers inside record() (SpecConc).  record takes &self, so   *)
(* any number of threads may run it at once; start_trace and stop_trace    *)
(* take &mut self, so they run only while no producer is inside record.    *)
(* A producer goes: call and early returns (pc idle), write() (acquire),   *)
(* trace.add behind the guard (locked), drop of the guard and return       *)
(* (added).  A producer that panics while it holds the guard poisons the   *)
(* lock and is gone (dead).                                                *)
(***************************************************************************)
\* RwLock::write() blocks until no other thread holds the lock
CanWrite_noExclusion(l) == TRUE

CanWrite(l) == l = None

Quiet == \A p \in Producers : pc[p] \in {"idle", "dead"}

\* Layer indices the producers hand to record(): a valid one and an invalid one
ConcLayerArgs == {0, NumLayers}

\* the call and the early returns of record()
PCall(p, layer, component, data) ==
    LET check == RecordCheck(enabled, num_layers, layer)
    IN  /\ pc[p] = "idle"
        /\ CASE check = "ReturnOk" ->
                  /\ res' = [res EXCEPT ![p] = Some(Ok)]
                  /\ UNCHANGED <<pc, arg>>
             [] check = "LayerNotFound" ->
                  /\ res' = [res EXCEPT ![p] = Some(LayerNotFound(layer, num_layers))]
                  /\ UNCHANGED <<pc, arg>>
             [] OTHER ->
                  /\ arg' = [arg EXCEPT ![p] = Some([layer |-> layer,
                                                     component |-> component,
                                                     data |-> data])]
                  /\ pc' = [pc EXCEPT ![p] = "acquire"]
                  /\ res' = [res EXCEPT ![p] = None]
        /\ UNCHANGED <<tracerFrame, sessionVars, callerVars, lock, snap, after_poison>>

\* self.current_trace.write() and the match on its result
PAcquire(p) ==
    LET guard == Recover(LockWrite(poisoned))
    IN  /\ pc[p] = "acquire"
        /\ CanWrite(lock)
        /\ IF guard = "guard"
           THEN /\ lock' = Some(p)
                /\ snap' = [snap EXCEPT ![p] = current_trace]
                /\ pc' = [pc EXCEPT ![p] = "locked"]
                /\ UNCHANGED <<res, arg>>
           ELSE \* the PoisonError is not handled: the thread panics
                /\ pc' = [pc EXCEPT ![p] = "dead"]
                /\ res' = [res EXCEPT ![p] = Some(LockError)]
                /\ arg' = [arg EXCEPT ![p] = None]
                /\ UNCHANGED <<lock, snap>>
        /\ UNCHANGED <<tracerFrame, sessionVars, callerVars, after_poison>>

\* if let Some(ref mut trace) = *guard { trace.add(activation) }
PAdd(p) ==
    LET a == arg[p][1]
        activation == ActivationNew(a.layer, a.component, a.data)
    IN  /\ pc[p] = "locked"
        /\ current_trace' = GuardedAdd(snap[p], activation)
        /\ IF snap[p] # None
           THEN /\ expected' = [expected EXCEPT ![<<a.layer, a.component>>] = Some(a.data)]
                /\ after_poison' = (after_poison \/ poisoned)
           ELSE UNCHANGED <<expected, after_poison>>
        /\ pc' = [pc EXCEPT ![p] = "added"]
        /\ snap' = [snap EXCEPT ![p] = None]
        /\ UNCHANGED <<tracerFrame, num_layers, enabled, poisoned, held, last, started,
                       idle_recorded, lock, arg, res>>

\* the guard is dropped and record returns Ok(())
PRelease(p) ==
    /\ pc[p] = "added"
    /\ lock' = IF lock = Some(p) THEN None ELSE lock
    /\ res' = [res EXCEPT ![p] = Some(Ok)]
    /\ arg' = [arg EXCEPT ![p] = None]
    /\ pc' = [pc EXCEPT ![p] = "idle"]
    /\ UNCHANGED <<tracerFrame, sessionVars, callerVars, snap, after_poison>>

\* the producer panics while it holds the guard, before trace.add has run or
\* after it: unwinding drops the guard, which poisons the lock
PAbort(p) ==
    /\ pc[p] \in {"locked", "added"}
    /\ poisoned' = TRUE
    /\ lock' = IF lock = Some(p) THEN None ELSE lock
    /\ res' = [res EXCEPT ![p] = Some(<<"Panicked", pc[p], arg[p][1].layer,
                                        arg[p][1].component>>)]
    /\ arg' = [arg EXCEPT ![p] = None]
    /\ pc' = [pc EXCEPT ![p] = "dead"]
    /\ snap' = [snap EXCEPT ![p] = None]
    /\ UNCHANGED <<tracerFrame, num_layers, enabled, current_trace, callerVars, after_poison>>

\* the thread that owns the tracer; it has dropped the trace of the session
\* before when it starts the next one
ConcStartTrace(architecture, input_tokens) ==
    Quiet /\ held = NothingHeld /\ StartTrace(architecture, input_tokens)

ConcStopTrace == Quiet /\ StopTrace

NextConc ==
    \/ \E a \in StartArgs : ConcStartTrace(a[1], a[2])
    \/ ConcStopTrace
    \/ \E p \in Producers, layer \in ConcLayerArgs, component \in Components,
          data \in Tensors : PCall(p, layer, component, data)
    \/ \E p \in Producers : PAcquire(p)
    \/ \E p \in Producers : PAdd(p)
    \/ \E p \in Producers : PRelease(p)
    \/ \E p \in Producers : PAbort(p)
    \/ DropReturned

(***************************************************************************)
(* The chunk store, ActivationStorage (streaming.rs).                      *)
(***************************************************************************)
\* Layer indices, component names, tensors and token ranges handed to store()
StoreLayers == {0, 1}
StoreComponents == {"residual", "attn_out"}
StoreTensors == {TensorA, TensorB, TensorC}
TokenRanges == {<<0, 2>>}
StorePairs == StoreLayers \X StoreComponents

\* The configurations the store is built with: the one of test_store_and_load,
\* all layers with one component, one layer with two components, and no
\* component at all.
Configs ==
    {[capture_layers |-> <<0>>, capture_components |-> <<"residual">>],
     [capture_layers |-> << >>, capture_components |-> <<"residual">>],
     [capture_layers |-> <<0>>, capture_components |-> <<"residual", "attn_out">>],
     [capture_layers |-> << >>, capture_components |-> << >>]}

\* ActivationStorage::key
StorageKey(layer, component) == ToString(layer) \o "_" \o component

\* ActivationStorage::file_path, below storage_dir
FilePath(layer, component) ==
    "layer_" \o ToString(layer) \o "_" \o component \o ".bin"

\* What storage_dir holds when the store is built: nothing, or a file that an
\* earlier run left behind (create_dir_all keeps what is there).
InitialFiles ==
    {EmptyMap, [f \in {FilePath(0, "residual")} |-> <<7, 7, 7>>]}

\* entry.path().extension() == "bin": true of the names file_path gives
HasBinExtension(path) ==
    path \in {FilePath(layer, component) :
                 layer \in StoreLayers, component \in StoreComponents}

\* Vec::contains
Contains(seq, x) == \E i \in DOMAIN seq : seq[i] = x

\* the two early returns of store()
Filtered_layersOnly(cfg, layer, component) ==
    cfg.capture_layers # << >> /\ ~Contains(cfg.capture_layers, layer)

Filtered_emptyExcludes(cfg, layer, component) ==
    \/ ~Contains(cfg.capture_layers, layer)
    \/ ~Contains(cfg.capture_components, component)

Filtered(cfg, layer, component) ==
    \/ cfg.capture_layers # << >> /\ ~Contains(cfg.capture_layers, layer)
    \/ ~Contains(cfg.capture_components, component)

\* f32::to_le_bytes and f32::from_le_bytes
ToLeBytes(f) == <<f[4], f[3], f[2], f[1]>>
FromLeBytes(c) == <<c[4], c[3], c[2], c[1]>>

\* ArrayBase::iter(): the elements in logical (row-major index) order,
\* whatever the order in memory
TensorIter(t) ==
    LET s == t.shape
    IN  [n \in 1 .. (s[1] * s[2] * s[3]) |->
            LET q == n - 1
                i == q \div (s[2] * s[3])
                j == (q \div s[3]) % s[2]
                k == q % s[3]
            IN  IF t.order = "C" THEN t.raw[n]
                ELSE t.raw[1 + i + j * s[1] + k * s[1] * s[2]]]

\* the bytes of a sequence of f32, each little-endian
LeBytes(floats) ==
    [b \in 1 .. (4 * Len(floats)) |-> ToLeBytes(floats[((b - 1) \div 4) + 1])[((b - 1) % 4) + 1]]

\* data.iter().flat_map(|f| f.to_le_bytes()).collect()
StoreBytes_memoryOrder(data) == LeBytes(IntoRawVec(data))

StoreBytes(data) == LeBytes(TensorIter(data))

\* bytes.chunks_exact(4).map(f32::from_le_bytes).collect()
Floats(bytes) ==
    [i \in 1 .. (Len(bytes) \div 4) |-> FromLeBytes(SubSeq(bytes, 4 * i - 3, 4 * i))]

\* File::create: the file exists and is empty afterwards
FileCreate(fs, path) == MapInsert(fs, path, << >>)

\* write_all at the position of the handle
WriteAt(content, pos, bytes) ==
    LET padded == IF Len(content) < pos
                  THEN content \o [i \in 1 .. (pos - Len(content)) |-> 0]
                  ELSE content
    IN  SubSeq(padded, 1, pos) \o bytes
           \o SubSeq(padded, pos + Len(bytes) + 1, Len(padded))

\* ActivationStorage::new, on a storage_dir that holds fs
StorageNew(cfg, fs) ==
    /\ config = cfg
    /\ metadata = EmptyMap
    /\ offsets = EmptyMap
    /\ writers = EmptyMap
    /\ files = fs
    /\ stored = [p \in StorePairs |-> << >>]
    /\ unflushed = FALSE
    /\ io = [op |-> "new", result |-> Ok]
    /\ failures = 0

\* Array3::from_shape_vec(shape, floats)
FromShapeVec(shape, floats) ==
    IF Len(floats) = shape[1] * shape[2] * shape[3]
    THEN <<"Ok", [shape |-> shape, order |-> "C", raw |-> floats]>>
    ELSE <<"InvalidData">>

\* chunks.get(chunk_idx)
GetChunk_wrapping(chunks, chunk_idx) ==
    IF chunks = << >> THEN None ELSE Some(chunks[(chunk_idx % Len(chunks)) + 1])

GetChunk(chunks, chunk_idx) ==
    IF chunk_idx < Len(chunks) THEN Some(chunks[chunk_idx + 1]) ELSE None

\* file.seek(SeekFrom::Start(offset)); file.read_exact(&mut bytes) with a
\* buffer of size bytes
ReadExact_short(content, offset, size) ==
    <<"Ok", SubSeq(content, offset + 1,
                   IF offset + size > Len(content) THEN Len(content)
                   ELSE offset + size)>>

ReadExact(content, offset, size) ==
    IF offset + size > Len(content) THEN <<"UnexpectedEof">>
    ELSE <<"Ok", SubSeq(content, offset + 1, offset + size)>>

\* ActivationStorage::load
Load(layer, component, chunk_idx) ==
    LET key == StorageKey(layer, component)
        path == FilePath(layer, component)
    IN  IF key \notin DOMAIN metadata
        THEN <<"NotFound", "No data for layer/component">>
        ELSE IF GetChunk(metadata[key], chunk_idx) = None
        THEN <<"NotFound", "Chunk index out of range">>
        ELSE LET meta == GetChunk(metadata[key], chunk_idx)[1]
             IN  IF path \notin DOMAIN files
                 THEN <<"NotFound", "open">>
                 ELSE LET read == ReadExact(files[path], meta.offset, meta.size_bytes)
                      IN  IF read[1] # "Ok" THEN read
                          ELSE FromShapeVec(meta.shape, Floats(read[2]))

\* self.metadata.entry(key).or_default().push(metadata)
PushChunk_front(chunks, meta) == <<meta>> \o chunks

PushChunk_replace(chunks, meta) == <<meta>>

PushChunk(chunks, meta) == Append(chunks, meta)

\* an io::Error returned by store
IoError(what) == <<"IoError", what>>

\* how many bytes write_all has appended when it fails
PartialWrites == {0, 4}

\* how many bytes a backing file loses when it is shortened
Cuts == {1, 8}

\* the tensors and the configurations of the runs with failing store calls or
\* shortened files
FaultTensors == {TensorB}
FaultConfigs ==
    {[capture_layers |-> <<0>>, capture_components |-> <<"residual">>],
     [capture_layers |-> << >>, capture_components |-> <<"residual">>]}

\* ActivationStorage::store
Store(layer, component, data, token_range) ==
    LET key == StorageKey(layer, component)
        path == FilePath(layer, component)
        opened == key \in DOMAIN writers
        files1 == IF opened THEN files ELSE FileCreate(files, path)
        writers1 == IF opened THEN writers
                    ELSE MapInsert(writers, key, [path |-> path, pos |-> 0])
        writer == writers1[key]
        offset == IF key \in DOMAIN offsets THEN offsets[key] ELSE 0
        bytes == StoreBytes(data)
        meta == [layer |-> layer, component |-> component, shape |-> ShapeOf(data),
                 dtype |-> "f32", offset |-> offset, size_bytes |-> Len(bytes),
                 token_range |-> token_range]
        chunks == IF key \in DOMAIN metadata THEN metadata[key] ELSE << >>
    IN  /\ io' = [op |-> "store", layer |-> layer, component |-> component,
                  result |-> Ok]
        /\ IF Filtered(config, layer, component)
           THEN UNCHANGED <<metadata, offsets, writers, files, stored, unflushed>>
           ELSE /\ Len(chunks) < MaxChunks
                /\ files' = IF writer.path \in DOMAIN files1
                            THEN [files1 EXCEPT ![writer.path] = WriteAt(@, writer.pos, bytes)]
                            ELSE files1
                /\ writers' = [writers1 EXCEPT ![key].pos = @ + Len(bytes)]
                /\ metadata' = MapInsert(metadata, key, PushChunk(chunks, meta))
                /\ offsets' = MapInsert(offsets, key, offset + Len(bytes))
                /\ stored' = [stored EXCEPT ![<<layer, component>>] =
                                 Append(@, [data |-> data, token_range |-> token_range])]
                /\ unflushed' = TRUE
        /\ UNCHANGED <<storeFrame, failures, config>>

\* ActivationStorage::store when File::create fails: the `?` returns the error
\* before a writer is inserted
StoreCreateFails(layer, component) ==
    /\ ~Filtered(config, layer, component)
    /\ StorageKey(layer, component) \notin DOMAIN writers
    /\ failures < MaxFailures
    /\ failures' = failures + 1
    /\ io' = [op |-> "store", layer |-> layer, component |-> component,
              result |-> IoError("create")]
    /\ UNCHANGED <<storeFrame, config, metadata, offsets, writers, files, stored,
                   unflushed>>

\* ActivationStorage::store when write_all fails after it has appended the
\* first n bytes: the `?` returns the error before the metadata is pushed and
\* the offset counter advanced
StoreWriteFails(layer, component, data, n) ==
    LET key == StorageKey(layer, component)
        path == FilePath(layer, component)
        opened == key \in DOMAIN writers
        files1 == IF opened THEN files ELSE FileCreate(files, path)
        writers1 == IF opened THEN writers
                    ELSE MapInsert(writers, key, [path |-> path, pos |-> 0])
        writer == writers1[key]
        offset == IF key \in DOMAIN offsets THEN offsets[key] ELSE 0
        bytes == StoreBytes(data)
    IN  /\ ~Filtered(config, layer, component)
        /\ n < Len(bytes)
        /\ failures < MaxFailures
        /\ failures' = failures + 1
        /\ files' = IF writer.path \in DOMAIN files1
                    THEN [files1 EXCEPT ![writer.path] =
                             WriteAt(@, writer.pos, SubSeq(bytes, 1, n))]
                    ELSE files1
        /\ writers' = [writers1 EXCEPT ![key].pos = @ + n]
        /\ offsets' = MapInsert(offsets, key, offset)
        /\ io' = [op |-> "store", layer |-> layer, component |-> component,
                  result |-> IoError("write")]
        /\ UNCHANGED <<storeFrame, config, metadata, stored, unflushed>>

\* ActivationStorage::flush: File::flush on every writer
Flush ==
    /\ io' = [op |-> "flush", result |-> Ok]
    /\ unflushed' = FALSE
    /\ UNCHANGED <<storeFrame, failures, config, metadata, offsets, writers, files, stored>>

\* key.split('_').next()?.parse().ok(): the digits before the first '_' of a
\* key are the layer the key was built from
ParseLayer(key) ==
    CHOOSE layer \in StoreLayers :
       \E component \in StoreComponents : key = StorageKey(layer, component)

\* layers.sort(); layers.dedup()
SortDedup(layers) ==
    CHOOSE seq \in [1 .. Cardinality(layers) -> layers] :
       \A i, j \in DOMAIN seq : i < j => seq[i] < seq[j]

\* ActivationStorage::available_layers
AvailableLayers == SortDedup({ParseLayer(key) : key \in DOMAIN metadata})

\* the sum of size_bytes over a sequence of chunks
SumSizes_first(chunks) ==
    IF chunks = << >> THEN 0 ELSE Head(chunks).size_bytes

RECURSIVE SumSizes(_)
SumSizes(chunks) ==
    IF chunks = << >> THEN 0 ELSE Head(chunks).size_bytes + SumSizes(Tail(chunks))

\* the sum of SumSizes over the keys of an index
RECURSIVE SumIndex(_, _)
SumIndex(index, keys) ==
    IF keys = {} THEN 0
    ELSE LET key == CHOOSE k \in keys : TRUE
         IN  SumSizes(index[key]) + SumIndex(index, keys \ {key})

\* ActivationStorage::total_size_bytes
TotalSizeBytes == SumIndex(metadata, DOMAIN metadata)

\* self.metadata.clear(), self.offsets.clear()
ClearIndex_keep(index) == index

ClearIndex(index) == EmptyMap

\* fs::remove_file on every entry of storage_dir with the extension "bin"
RemoveBinFiles_keep(fs) == fs

RemoveBinFiles(fs) ==
    [path \in {q \in DOMAIN fs : ~HasBinExtension(q)} |-> fs[path]]

\* ActivationStorage::cleanup
Cleanup ==
    /\ writers' = EmptyMap
    /\ files' = RemoveBinFiles(files)
    /\ metadata' = ClearIndex(metadata)
    /\ offsets' = ClearIndex(offsets)
    /\ stored' = [p \in StorePairs |-> << >>]
    /\ unflushed' = FALSE
    /\ io' = [op |-> "cleanup", result |-> Ok,
              again |-> io.op = "cleanup",
              removed |-> Cardinality(DOMAIN files \ DOMAIN RemoveBinFiles(files))
                             + (IF io.op = "cleanup" THEN io.removed ELSE 0)]
    /\ UNCHANGED <<storeFrame, failures, config>>

\* the entries of storage_dir that cleanup removes
BinFiles(fs) == {path \in DOMAIN fs : HasBinExtension(path)}

\* ActivationStorage::cleanup when one of its `?` returns an I/O error: the
\* writers are already cleared (dropping a BufWriter writes its buffer out),
\* the files in removed are gone (read_dir yields the entries in no fixed
\* order), and neither metadata.clear() nor offsets.clear() is reached
CleanupFails(removed, what) ==
    /\ failures < MaxFailures
    /\ removed \subseteq BinFiles(files)
    /\ what = "read_dir" => removed = {}
    /\ what = "remove_file" => removed # BinFiles(files)
    /\ failures' = failures + 1
    /\ writers' = EmptyMap
    /\ files' = [path \in DOMAIN files \ removed |-> files[path]]
    /\ unflushed' = FALSE
    /\ io' = [op |-> "cleanup", result |-> IoError(what), again |-> FALSE,
              removed |-> Cardinality(removed)]
    /\ UNCHANGED <<storeFrame, config, metadata, offsets, stored>>

\* a call of ActivationStorage::load
LoadCall(layer, component, chunk_idx) ==
    /\ io' = [op |-> "load", layer |-> layer, component |-> component,
              chunk_idx |-> chunk_idx, result |-> Load(layer, component, chunk_idx)]
    /\ UNCHANGED <<storeFrame, failures, config, metadata, offsets, writers, files, stored, unflushed>>

\* a call of ActivationStorage::total_size_bytes
TotalSizeCall ==
    /\ io' = [op |-> "total_size_bytes", result |-> TotalSizeBytes]
    /\ UNCHANGED <<storeFrame, failures, config, metadata, offsets, writers, files,
                   stored, unflushed>>

\* a call of ActivationStorage::available_layers
AvailableCall ==
    /\ io' = [op |-> "available_layers", result |-> AvailableLayers]
    /\ UNCHANGED <<storeFrame, failures, config, metadata, offsets, writers, files,
                   stored, unflushed>>

NextStore ==
    \/ \E layer \in StoreLayers, component \in StoreComponents,
          data \in StoreTensors, token_range \in TokenRanges :
             Store(layer, component, data, token_range)
    \/ Flush
    \/ \E layer \in StoreLayers, component \in StoreComponents,
          chunk_idx \in 0 .. MaxChunks : LoadCall(layer, component, chunk_idx)
    \/ Cleanup

(***************************************************************************)
(* The ring buffer, ActivationRingBuffer (streaming.rs).                   *)
(***************************************************************************)
\* capacities a ring buffer is built with, and the tensors pushed
RingCapacities == 1 .. MaxCapacity
RingTensors == {TensorA, TensorB, TensorC}

\* ActivationRingBuffer::new
RingNew(capacity) ==
    /\ buffer = [i \in 1 .. capacity |-> None]
    /\ write_pos = 0
    /\ count = 0
    /\ pushed = << >>
    /\ rb = [op |-> "new"]

\* ActivationRingBuffer::capacity, len
Capacity == Len(buffer)
RingLen == count

\* push: self.write_pos = (self.write_pos + 1) % self.buffer.len()
Advance_stay(pos, len) == pos

Advance(pos, len) == (pos + 1) % len

\* push: if self.count < self.buffer.len() { self.count += 1 }
BumpCount_unbounded(n, len) == n + 1

BumpCount(n, len) == IF n < len THEN n + 1 ELSE n

\* ActivationRingBuffer::push
Push(activation) ==
    /\ Len(pushed) < 2 * Len(buffer)
    /\ buffer' = [buffer EXCEPT ![write_pos + 1] = Some(activation)]
    /\ write_pos' = Advance(write_pos, Len(buffer))
    /\ count' = BumpCount(count, Len(buffer))
    /\ pushed' = Append(pushed, activation)
    /\ rb' = [op |-> "push"]
    /\ UNCHANGED ringFrame

\* the slots at the given indices that hold a tensor, in the order of the
\* indices: `if let Some(ref act) = self.buffer[idx] { result.push(act) }`
RECURSIVE Occupied(_, _)
Occupied(slots, idxs) ==
    IF idxs = << >> THEN << >>
    ELSE (IF slots[Head(idxs) + 1] # None THEN <<slots[Head(idxs) + 1][1]>> ELSE << >>)
            \o Occupied(slots, Tail(idxs))

\* usize::min
Min(a, b) == IF a < b THEN a ELSE b

\* recent: the index of the i-th most recent slot
RecentIdx_noWrap(pos, len, i) ==
    IF pos >= i + 1 THEN pos - i - 1 ELSE len - (i + 1)

RecentIdx(pos, len, i) ==
    IF pos >= i + 1 THEN pos - i - 1 ELSE len - (i + 1 - pos)

\* ActivationRingBuffer::recent
Recent(n) ==
    Occupied(buffer, [j \in 1 .. Min(n, count) |-> RecentIdx(write_pos, Len(buffer), j - 1)])

\* all: the index of the oldest slot
AllStart_zero(n, len, pos) == 0

AllStart(n, len, pos) == IF n < len THEN 0 ELSE pos

\* ActivationRingBuffer::all
All ==
    Occupied(buffer, [j \in 1 .. count |->
                         (AllStart(count, Len(buffer), write_pos) + (j - 1)) % Len(buffer)])

\* ActivationRingBuffer::is_empty
IsEmpty == count = 0

\* ActivationRingBuffer::clear
Clear_countOnly ==
    /\ write_pos' = 0
    /\ count' = 0
    /\ pushed' = << >>
    /\ rb' = [op |-> "clear", dropped |-> count]
    /\ UNCHANGED <<ringFrame, buffer>>

Clear ==
    /\ buffer' = [i \in DOMAIN buffer |-> None]
    /\ write_pos' = 0
    /\ count' = 0
    /\ pushed' = << >>
    /\ rb' = [op |-> "clear", dropped |-> count]
    /\ UNCHANGED ringFrame

\* a call of recent
RecentCall(n) ==
    /\ rb' = [op |-> "recent", n |-> n, result |-> Recent(n)]
    /\ UNCHANGED <<ringFrame, buffer, write_pos, count, pushed>>

\* a call of all
AllCall ==
    /\ rb' = [op |-> "all", result |-> All]
    /\ UNCHANGED <<ringFrame, buffer, write_pos, count, pushed>>

(***************************************************************************)
(* Machine integers.  A usize is 64 bits wide; it is held here as its      *)
(* eight bytes, least significant first, so that products that pass 2^31   *)
(* and wrap-around at 2^64 are computed and not assumed.  An arithmetic    *)
(* result is a record: the wrapped value v and the overflow flag of.       *)
(***************************************************************************)
\* the number of bytes of a usize
UsizeBytes == 8

\* a number below 2^31 as a little-endian number of w bytes
ToBytes(n, w) ==
    [i \in 1 .. w |-> IF i <= 4 THEN (n \div (256 ^ (i - 1))) % 256 ELSE 0]

\* a usize literal
U(n) == ToBytes(n, UsizeBytes)

\* the number that bytes hold, when it is below 2^31
ToNat(a) == a[1] + 256 * a[2] + 65536 * a[3] + 16777216 * a[4]

\* whether the bytes hold a number below 2^31
IsSmall(a) == a[4] < 128 /\ \A i \in DOMAIN a : i > 4 => a[i] = 0

\* a < b, for two numbers of the same width
Less(a, b) ==
    \E i \in DOMAIN a : a[i] < b[i] /\ \A j \in DOMAIN a : j > i => a[j] = b[j]

\* carry propagation over column sums, from column k on
RECURSIVE Carry(_, _, _)
Carry(cols, k, c) ==
    IF k > Len(cols) THEN << >>
    ELSE <<(cols[k] + c) % 256>> \o Carry(cols, k + 1, (cols[k] + c) \div 256)

\* the sum of a[i] * b[k + 1 - i] over the i from i0 on
RECURSIVE Column(_, _, _, _)
Column(a, b, k, i0) ==
    IF i0 > Len(a) THEN 0
    ELSE (IF k + 1 - i0 \in DOMAIN b THEN a[i0] * b[k + 1 - i0] ELSE 0)
            + Column(a, b, k, i0 + 1)

\* the full product of two numbers of w bytes, in 2w bytes
Product(a, b) ==
    Carry([k \in 1 .. (2 * Len(a)) |-> Column(a, b, k, 1)], 1, 0)

\* what is kept of a full result: the low bytes of a usize
Wrap_u32(full) == SubSeq(full, 1, 4) \o <<0, 0, 0, 0>>

Wrap(full) == SubSeq(full, 1, UsizeBytes)

\* a * b on usize
Mul(a, b) ==
    LET full == Product(a, b)
    IN  [v |-> Wrap(full),
         of |-> Wrap(full) \o [i \in 1 .. (Len(full) - UsizeBytes) |-> 0] # full]

\* a + b on usize
Add(a, b) ==
    LET full == Carry([k \in 1 .. (UsizeBytes + 1) |->
                          IF k <= UsizeBytes THEN a[k] + b[k] ELSE 0], 1, 0)
    IN  [v |-> Wrap(full), of |-> full[UsizeBytes + 1] # 0]

\* a - b on usize: a + (2^64 - b), which is a + ~b + 1, wrapped
Sub(a, b) ==
    LET full == Carry([k \in 1 .. UsizeBytes |-> a[k] + (255 - b[k])], 1, 1)
    IN  [v |-> full, of |-> Less(a, b)]

\* a / 2 on usize
Half(a) ==
    [i \in 1 .. UsizeBytes |->
        (a[i] \div 2) + (IF i < UsizeBytes THEN (a[i + 1] % 2) * 128 ELSE 0)]

(***************************************************************************)
(* MemoryEstimator.  Its functions take and return usize.                  *)
(***************************************************************************)
\* the largest of the small layer counts
MaxModelLayers == 8

ModelLayers == (0 .. MaxModelLayers) \cup {12, 80}
HiddenSizes == {768, 8192, 16384}
BatchSizes == {1, 64}
SeqLens == {1024, 131072}

\* memory limits, each written as the factors of its literal: 0, 4 MiB,
\* 16 MiB, 64 MiB, 256 MiB, 1 GiB and 4 GiB
MemoryLimits ==
    {<<0>>, <<4, 1024, 1024>>, <<16, 1024, 1024>>, <<64, 1024, 1024>>,
     <<256, 1024, 1024>>, <<1024, 1024, 1024>>, <<4, 1024, 1024, 1024>>}

\* the value of a literal a * b * ... of type usize
RECURSIVE Literal(_)
Literal(factors) ==
    IF Len(factors) = 1 THEN U(factors[1])
    ELSE Mul(Literal(SubSeq(factors, 1, Len(factors) - 1)),
             U(factors[Len(factors)])).v

Panicked(what) == <<"panic", what>>

\* what a call returns whose arithmetic came out as r
Returned(r) ==
    IF r.of /\ overflow_checks THEN Panicked("arithmetic overflow")
    ELSE <<"Ok", r.v>>

\* MemoryEstimator::estimate_full_capture
EstimateFullCapture(n, hidden_size, batch_size, seq_len) ==
    LET bs == Mul(batch_size, seq_len)
        bsh == Mul(bs.v, hidden_size)
        per_component == Mul(bsh.v, U(4))
        per_layer == Mul(per_component.v, U(3))
        total == Mul(n, per_layer.v)
    IN [v |-> total.v,
        of |-> bs.of \/ bsh.of \/ per_component.of \/ per_layer.of \/ total.of]

\* MemoryEstimator::key_layers
KeyLayers(n) ==
    LET mid == Half(n)
        below == Sub(mid, U(1))
        above == Add(mid, U(1))
        last2 == Sub(n, U(2))
        last1 == Sub(n, U(1))
        layers == <<U(0), U(1), below.v, mid, above.v, last2.v, last1.v>>
        kept == SelectSeq(layers, LAMBDA l : Less(l, n))
    IN [v |-> [i \in 1 .. Len(kept) |-> ToNat(kept[i])],
        of |-> below.of \/ above.of \/ last2.of \/ last1.of]

InMemory == <<"InMemory">>
SelectiveLayers(layers) == <<"SelectiveLayers", layers>>
Streaming == <<"Streaming">>

\* MemoryEstimator::suggest_strategy
SuggestStrategy(n, hidden_size, memory_limit_bytes) ==
    LET full_mem == EstimateFullCapture(n, hidden_size, U(1), U(1024))
        limit4 == Mul(memory_limit_bytes, U(4))
        key == KeyLayers(n)
    IN  IF full_mem.of /\ overflow_checks THEN [v |-> None, of |-> TRUE]
        ELSE IF Less(full_mem.v, memory_limit_bytes)
             THEN [v |-> InMemory, of |-> FALSE]
        ELSE IF limit4.of /\ overflow_checks THEN [v |-> None, of |-> TRUE]
        ELSE IF Less(full_mem.v, limit4.v)
             THEN [v |-> SelectiveLayers(key.v), of |-> key.of]
        ELSE [v |-> Streaming, of |-> FALSE]

\* the calls on MemoryEstimator
EstimateCalls ==
    {[op |-> "estimate_full_capture", args |-> <<n, h, b, l>>, result |-> None] :
        n \in ModelLayers, h \in HiddenSizes, b \in BatchSizes, l \in SeqLens}
SuggestCalls ==
    {[op |-> "suggest_strategy", args |-> <<n, h, limit>>, result |-> None] :
        n \in ModelLayers, h \in HiddenSizes, limit \in MemoryLimits}

EstimatorInit(checks, call) ==
    /\ overflow_checks = checks
    /\ me = call

\* the estimator where the call is on another component
EstimatorIdle ==
    EstimatorInit(FALSE, [op |-> "estimate_full_capture",
                          args |-> <<0, 768, 1, 1024>>, result |-> None])

\* the call of estimate_full_capture returns
EstimateCall ==
    /\ me.op = "estimate_full_capture"
    /\ me' = [me EXCEPT !.result =
                 Some(Returned(EstimateFullCapture(U(me.args[1]), U(me.args[2]),
                                                   U(me.args[3]), U(me.args[4]))))]
    /\ UNCHANGED <<estimatorFrame, overflow_checks>>

\* the call of suggest_strategy returns
SuggestCall ==
    /\ me.op = "suggest_strategy"
    /\ me' = [me EXCEPT !.result =
                 Some(Returned(SuggestStrategy(U(me.args[1]), U(me.args[2]),
                                               Literal(me.args[3]))))]
    /\ UNCHANGED <<estimatorFrame, overflow_checks>>

\* arguments of suggest_strategy up to the width of a usize, each written as
\* the factors of its literal: hidden sizes 768, 8192 and 2^48, and the limits
\* above with 2^61 and 2^62 bytes
WideLayers == {1, 2, 12, 80}
WideHiddenSizes == {<<768>>, <<8192>>, <<256, 1024, 1024, 1024, 1024>>}
WideLimits ==
    MemoryLimits \cup {<<2, 1024, 1024, 1024, 1024, 1024, 1024>>,
                       <<4, 1024, 1024, 1024, 1024, 1024, 1024>>}

\* a caller that asks suggest_strategy twice, the second time with another
\* memory limit; before is the first limit and what was returned for it
WideCalls ==
    {[op |-> "suggest_strategy", args |-> <<n, h, limit>>, result |-> None,
      before |-> None] :
        n \in WideLayers, h \in WideHiddenSizes, limit \in WideLimits}

\* the first call of suggest_strategy returns
SuggestFirst ==
    /\ me.op = "suggest_strategy"
    /\ me.result = None
    /\ me' = [me EXCEPT !.result =
                 Some(Returned(SuggestStrategy(U(me.args[1]), Literal(me.args[2]),
                                               Literal(me.args[3]))))]
    /\ UNCHANGED <<estimatorFrame, overflow_checks>>

\* the call of suggest_strategy with the same model and another limit returns
SuggestAgain(limit) ==
    /\ me.op = "suggest_strategy"
    /\ me.result # None
    /\ me.before = None
    /\ me' = [me EXCEPT !.args[3] = limit,
                        !.before = Some([limit |-> me.args[3],
                                         result |-> me.result[1]]),
                        !.result =
                 Some(Returned(SuggestStrategy(U(me.args[1]), Literal(me.args[2]),
                                               Literal(limit))))]
    /\ UNCHANGED <<estimatorFrame, overflow_checks>>

(***************************************************************************)
(* Activation::as_array and ::try_as_array.  The shape of an Activation is *)
(* a public Vec<usize> and the whole struct can be deserialized, so the    *)
(* shape need not have three dimensions nor fit the data.                  *)
(***************************************************************************)
\* the longest shape and the longest data of an Activation
MaxRank == 4
MaxElems == 4

Dims == {0, 1, 2}
Shapes == UNION {[1 .. r -> Dims] : r \in 0 .. MaxRank}
Elems(n) == [i \in 1 .. n |-> <<FOne, FPi, FNegZero, FNaN>>[((i - 1) % 4) + 1]]

Activations ==
    {[layer |-> 0, component |-> "residual", shape |-> shape, data |-> Elems(n)] :
        shape \in Shapes, n \in 0 .. MaxElems}

FZero == <<0, 0, 0, 0>>

\* Array3::zeros(shape)
Zeros(shape) ==
    [shape |-> shape, order |-> "C",
     raw |-> [i \in 1 .. (shape[1] * shape[2] * shape[3]) |-> FZero]]

InvalidShape(wanted, got) == <<"InvalidShape", wanted, got>>

\* Activation::as_array; self.shape[i] panics when the shape is shorter
AsArray(a) ==
    IF Len(a.shape) < 3 THEN Panicked("index out of bounds")
    ELSE LET r == FromShapeVec(<<a.shape[1], a.shape[2], a.shape[3]>>, a.data)
         IN  IF r[1] = "Ok" THEN <<"returned", r[2]>>
             ELSE <<"returned", Zeros(<<1, 1, 1>>)>>

\* Activation::try_as_array
TryAsArray(a) ==
    IF Len(a.shape) # 3
    THEN InvalidShape("3D array", ToString(Len(a.shape)) \o "D shape")
    ELSE LET r == FromShapeVec(<<a.shape[1], a.shape[2], a.shape[3]>>, a.data)
         IN  IF r[1] = "Ok" THEN r
             ELSE InvalidShape("shape", "ShapeError")

AccessInit(a) ==
    /\ act = a
    /\ acc = [op |-> "new"]

\* an Activation built by Activation::new, where the call is on another
\* component
AccessIdle == AccessInit(ActivationNew(0, "residual", TensorA))

\* a call of as_array
AsArrayCall ==
    /\ acc' = [op |-> "as_array", result |-> AsArray(act)]
    /\ UNCHANGED <<accessFrame, act>>

\* a call of try_as_array
TryAsArrayCall ==
    /\ acc' = [op |-> "try_as_array", result |-> TryAsArray(act)]
    /\ UNCHANGED <<accessFrame, act>>

(***************************************************************************)
(* HookRegistry.  A hook function is one of three closures on a slice:     *)
(* observe returns None, push1 and push2 return the slice with 1.0 or 2.0  *)
(* appended, so that the order and the chaining of the calls show in the   *)
(* result.                                                                 *)
(***************************************************************************)
\* the most register calls made on one registry
MaxRegistrations == 2

HookNames == {"a", "b"}
HookPoints == {"p", "q"}
HookFns == {"observe", "push1", "push2"}
HookData == <<0>>

\* (hook.function)(input)
Apply(function, input) ==
    CASE function = "observe" -> None
      [] function = "push1" -> Some(Append(input, 1))
      [] function = "push2" -> Some(Append(input, 2))

HookNotFound(name) == <<"HookNotFound", name>>

\* HookRegistry::new
RegistryNew ==
    /\ hooks = EmptyMap
    /\ by_hook_point = EmptyMap
    /\ registry_enabled = TRUE
    /\ registrations = << >>
    /\ hr = [op |-> "new"]

\* HashMap::remove
MapRemove(m, k) == [x \in DOMAIN m \ {k} |-> m[x]]

\* HookRegistry::register
Register(name, hook_point, function) ==
    LET hook == [name |-> name, hook_point |-> hook_point, function |-> function,
                 enabled |-> TRUE]
        names == IF hook_point \in DOMAIN by_hook_point
                 THEN by_hook_point[hook_point] ELSE << >>
    IN  /\ Len(registrations) < MaxRegistrations
        /\ hooks' = MapInsert(hooks, name, hook)
        /\ by_hook_point' = MapInsert(by_hook_point, hook_point, Append(names, name))
        /\ registrations' = Append(registrations, hook)
        /\ hr' = [op |-> "register", name |-> name, result |-> Ok]
        /\ UNCHANGED <<hookFrame, registry_enabled>>

\* HookRegistry::remove
Remove(name) ==
    /\ IF name \in DOMAIN hooks
       THEN LET hook == hooks[name]
            IN  /\ hooks' = MapRemove(hooks, name)
                /\ by_hook_point' =
                      IF hook.hook_point \in DOMAIN by_hook_point
                      THEN [by_hook_point EXCEPT ![hook.hook_point] =
                               SelectSeq(@, LAMBDA n : n # name)]
                      ELSE by_hook_point
                /\ hr' = [op |-> "remove", name |-> name, result |-> Some(hook)]
       ELSE /\ hr' = [op |-> "remove", name |-> name, result |-> None]
            /\ UNCHANGED <<hooks, by_hook_point>>
    /\ UNCHANGED <<hookFrame, registry_enabled, registrations>>

\* names.iter().filter_map(|name| self.hooks.get(name)).filter(|h| h.enabled)
RECURSIVE Lookup_ignoreEnabled(_)
Lookup_ignoreEnabled(names) ==
    IF names = << >> THEN << >>
    ELSE (IF Head(names) \in DOMAIN hooks
          THEN <<hooks[Head(names)]>> ELSE << >>) \o Lookup_ignoreEnabled(Tail(names))

RECURSIVE Lookup(_)
Lookup(names) ==
    IF names = << >> THEN << >>
    ELSE (IF Head(names) \in DOMAIN hooks /\ hooks[Head(names)].enabled
          THEN <<hooks[Head(names)]>> ELSE << >>) \o Lookup(Tail(names))

\* HookRegistry::get_hooks
GetHooks(hook_point) ==
    IF ~registry_enabled THEN << >>
    ELSE IF hook_point \in DOMAIN by_hook_point
         THEN Lookup(by_hook_point[hook_point])
         ELSE << >>

\* the loop of execute over the hooks that are left: current_data at its end
\* and the hooks invoked
RECURSIVE Run(_, _, _, _)
Run(left, data, current_data, invoked) ==
    IF left = << >> THEN [current_data |-> current_data, invoked |-> invoked]
    ELSE LET hook == Head(left)
             input == IF current_data # None THEN current_data[1] ELSE data
             modified == Apply(hook.function, input)
         IN  Run(Tail(left), data,
                 IF modified # None THEN modified ELSE current_data,
                 Append(invoked, [name |-> hook.name, input |-> input]))

\* HookRegistry::execute
Execute(hook_point, data) ==
    LET run == Run(GetHooks(hook_point), data, None, << >>)
    IN  /\ hr' = [op |-> "execute", hook_point |-> hook_point, data |-> data,
                  result |-> run.current_data, invoked |-> run.invoked]
        /\ UNCHANGED <<hookFrame, hooks, by_hook_point, registry_enabled,
                       registrations>>

\* HookRegistry::set_enabled
SetEnabled(name, e) ==
    /\ IF name \in DOMAIN hooks
       THEN /\ hooks' = [hooks EXCEPT ![name].enabled = e]
            /\ hr' = [op |-> "set_enabled", name |-> name, result |-> Ok]
       ELSE /\ hr' = [op |-> "set_enabled", name |-> name,
                      result |-> HookNotFound(name)]
            /\ UNCHANGED hooks
    /\ UNCHANGED <<hookFrame, by_hook_point, registry_enabled, registrations>>

\* HookRegistry::set_global_enabled
SetGlobalEnabled(e) ==
    /\ registry_enabled' = e
    /\ hr' = [op |-> "set_global_enabled", result |-> Ok]
    /\ UNCHANGED <<hookFrame, hooks, by_hook_point, registrations>>

\* HookRegistry::clear
ClearHooks ==
    /\ hooks' = EmptyMap
    /\ by_hook_point' = EmptyMap
    /\ hr' = [op |-> "clear", result |-> Ok]
    /\ UNCHANGED <<hookFrame, registry_enabled, registrations>>

(***************************************************************************)
(* The specifications.                                                     *)
(***************************************************************************)
Init == /\ InitTracer
        /\ StorageNew([capture_layers |-> << >>, capture_components |-> << >>],
                      EmptyMap)
        /\ RingNew(1)
        /\ EstimatorIdle
    /\ AccessIdle
    /\ RegistryNew

Spec == Init /\ [][Next]_vars

SpecConc == Init /\ [][NextConc]_vars

InitStore ==
    /\ InitTracer
    /\ \E cfg \in Configs, fs \in InitialFiles : StorageNew(cfg, fs)
    /\ RingNew(1)
    /\ EstimatorIdle
    /\ AccessIdle
    /\ RegistryNew

SpecStore == InitStore /\ [][NextStore]_vars

\* the store and the introspection of its index
NextIndex ==
    \/ \E layer \in StoreLayers, component \in StoreComponents,
          data \in StoreTensors, token_range \in TokenRanges :
             Store(layer, component, data, token_range)
    \/ Cleanup
    \/ TotalSizeCall
    \/ AvailableCall

SpecIndex == InitStore /\ [][NextIndex]_vars

\* the store when store calls may fail with an I/O error
InitFaults ==
    /\ InitTracer
    /\ \E cfg \in FaultConfigs : StorageNew(cfg, EmptyMap)
    /\ RingNew(1)
    /\ EstimatorIdle
    /\ AccessIdle
    /\ RegistryNew

NextFaults ==
    \/ \E layer \in StoreLayers, component \in StoreComponents,
          data \in FaultTensors, token_range \in TokenRanges :
             Store(layer, component, data, token_range)
    \/ \E layer \in StoreLayers, component \in StoreComponents :
          StoreCreateFails(layer, component)
    \/ \E layer \in StoreLayers, component \in StoreComponents,
          data \in FaultTensors, n \in PartialWrites :
             StoreWriteFails(layer, component, data, n)
    \/ Flush
    \/ \E layer \in StoreLayers, component \in StoreComponents,
          chunk_idx \in 0 .. MaxChunks : LoadCall(layer, component, chunk_idx)
    \/ Cleanup

SpecFaults == InitFaults /\ [][NextFaults]_vars

\* the points of cleanup at which an I/O error can be returned
CleanupFailurePoints == {"read_dir", "entry", "remove_file"}

\* the store when cleanup may fail with an I/O error
NextCleanupFaults ==
    \/ \E layer \in StoreLayers, component \in StoreComponents,
          data \in FaultTensors, token_range \in TokenRanges :
             Store(layer, component, data, token_range)
    \/ Flush
    \/ \E layer \in StoreLayers, component \in StoreComponents,
          chunk_idx \in 0 .. MaxChunks : LoadCall(layer, component, chunk_idx)
    \/ Cleanup
    \/ \E removed \in SUBSET DOMAIN files, what \in CleanupFailurePoints :
          CleanupFails(removed, what)

SpecCleanupFaults == InitFaults /\ [][NextCleanupFaults]_vars

\* the largest layer index of the calls whose keys are compared
MaxKeyLayer == 11

\* (layer, component) pairs whose component names hold digits and underscores
KeyPairs == {<<1, "1_x">>, <<MaxKeyLayer, "_x">>, <<MaxKeyLayer, "x">>, <<1, "1">>}

\* a tracer and a store that let every such pair through
InitKeys ==
    /\ TracerNew(MaxKeyLayer + 1)
    /\ CallerInit
    /\ ConcInit
    /\ StorageNew([capture_layers |-> << >>,
                   capture_components |-> <<"1_x", "_x", "x", "1">>], EmptyMap)
    /\ RingNew(1)
    /\ EstimatorIdle
    /\ AccessIdle
    /\ RegistryNew

NextKeys ==
    \/ StartTrace("llama", <<1, 2, 3>>)
    \/ \E p \in KeyPairs : Record(p[1], p[2], TensorA)
    \/ \E p \in KeyPairs, token_range \in TokenRanges :
          Store(p[1], p[2], TensorA, token_range)

SpecKeys == InitKeys /\ [][NextKeys]_vars

\* a backing file that holds all its writer has written is shortened behind
\* the store's back, by cut bytes
Truncate(path, cut) ==
    /\ path \in DOMAIN files
    /\ cut <= Len(files[path])
    /\ \E key \in DOMAIN writers :
          writers[key].path = path /\ writers[key].pos = Len(files[path])
    /\ files' = [files EXCEPT ![path] = SubSeq(@, 1, Len(@) - cut)]
    /\ io' = [op |-> "truncate", result |-> Ok]
    /\ UNCHANGED <<storeFrame, failures, config, metadata, offsets, writers, stored,
                   unflushed>>

\* the store when its backing files may be shortened
NextShort ==
    \/ \E layer \in StoreLayers, component \in StoreComponents,
          data \in FaultTensors, token_range \in TokenRanges :
             Store(layer, component, data, token_range)
    \/ Flush
    \/ \E layer \in StoreLayers, component \in StoreComponents,
          chunk_idx \in 0 .. MaxChunks : LoadCall(layer, component, chunk_idx)
    \/ \E path \in DOMAIN files, cut \in Cuts : Truncate(path, cut)

SpecShort == InitFaults /\ [][NextShort]_vars

\* the ring buffer
InitRing ==
    /\ InitTracer
    /\ StorageNew([capture_layers |-> << >>, capture_components |-> << >>],
                  EmptyMap)
    /\ \E capacity \in RingCapacities : RingNew(capacity)
    /\ EstimatorIdle
    /\ AccessIdle
    /\ RegistryNew

NextRing ==
    \/ \E activation \in RingTensors : Push(activation)
    \/ \E n \in 0 .. (MaxCapacity + 1) : RecentCall(n)
    \/ AllCall
    \/ Clear

SpecRing == InitRing /\ [][NextRing]_vars

\* the tracer with its component allow-list
NextCapture ==
    \/ \E a \in StartArgs : StartTrace(a[1], a[2])
    \/ StopTrace
    \/ \E layer \in LayerArgs, component \in Components :
          Record(layer, component, TensorA)
    \/ DropReturned
    \/ \E components \in CaptureLists : SetCaptureComponents(components)
    \/ \E component \in CaptureNames : ShouldCapture(component)

SpecCapture == Init /\ [][NextCapture]_vars

\* the memory estimator, in a build with overflow checks and in one without
InitEstimator ==
    /\ InitTracer
    /\ StorageNew([capture_layers |-> << >>, capture_components |-> << >>],
                  EmptyMap)
    /\ RingNew(1)
    /\ \E checks \in BOOLEAN, call \in EstimateCalls \cup SuggestCalls :
          EstimatorInit(checks, call)
    /\ AccessIdle
    /\ RegistryNew

NextEstimator ==
    \/ EstimateCall
    \/ SuggestCall

SpecEstimator == InitEstimator /\ [][NextEstimator]_vars

\* suggest_strategy asked twice for one model
InitLimits ==
    /\ InitTracer
    /\ StorageNew([capture_layers |-> << >>, capture_components |-> << >>],
                  EmptyMap)
    /\ RingNew(1)
    /\ \E checks \in BOOLEAN, call \in WideCalls : EstimatorInit(checks, call)
    /\ AccessIdle
    /\ RegistryNew

NextLimits ==
    \/ SuggestFirst
    \/ \E limit \in WideLimits : SuggestAgain(limit)

SpecLimits == InitLimits /\ [][NextLimits]_vars

\* an Activation of any shape and its accessors
InitAccess ==
    /\ InitTracer
    /\ StorageNew([capture_layers |-> << >>, capture_components |-> << >>],
                  EmptyMap)
    /\ RingNew(1)
    /\ EstimatorIdle
    /\ \E a \in Activations : AccessInit(a)
    /\ RegistryNew

NextAccess ==
    \/ AsArrayCall
    \/ TryAsArrayCall

SpecAccess == InitAccess /\ [][NextAccess]_vars

\* the hook registry
NextHooks ==
    \/ \E name \in HookNames, hook_point \in HookPoints, function \in HookFns :
          Register(name, hook_point, function)
    \/ \E name \in HookNames : Remove(name)
    \/ \E hook_point \in HookPoints : Execute(hook_point, HookData)
    \/ \E name \in HookNames, e \in BOOLEAN : SetEnabled(name, e)
    \/ \E e \in BOOLEAN : SetGlobalEnabled(e)
    \/ ClearHooks

SpecHooks == Init /\ [][NextHooks]_vars

(***************************************************************************)
(* Properties of the tracer under Spec.                                    *)
(***************************************************************************)
\* the trace holds exactly the activations of the tensors last recorded under
\* each (layer, component) since the last start_trace
TraceMatches(trace) ==
    /\ DOMAIN trace.activations =
          {TraceKey(p[1], p[2]) : p \in {q \in Pairs : expected[q] # None}}
    /\ \A p \in Pairs :
          expected[p] # None =>
             TraceGet(trace, p[1], p[2]) = Some(ActivationNew(p[1], p[2], expected[p][1]))

InvalidRecord == last.op = "record" /\ last.layer >= num_layers

C2_IdleRecordThenStopNone ==
    /\ (last.op = "record" /\ ~last.active /\ last.layer < num_layers)
          => last.result = Ok
    /\ (last.op = "stop_trace" /\ idle_recorded) => last.result = <<"None">>

C2_Witness ==
    /\ last.op = "stop_trace"
    /\ idle_recorded
    /\ last.result = <<"None">>
    /\ held # NothingHeld

\* C3: a record call made while the session is disabled (before the first
\* start_trace, or after a stop_trace) returns success for every layer index
\* and changes no field of the tracer.
C3_IdleRecordSilent ==
    [][(last'.op = "record" /\ ~enabled)
          => (last'.result = Ok /\ UNCHANGED sessionVars)]_vars

C3_Witness ==
    /\ InvalidRecord
    /\ ~last.active
    /\ last.result = Ok
    /\ held # NothingHeld
    /\ current_trace = None

\* C4: start_trace leaves the session Active with a new empty trace, and the
\* trace a stop_trace returns has the architecture and input_tokens of the last
\* start_trace and exactly the activations recorded since it.
C4_StartReplacesTrace ==
    /\ last.op = "start_trace" =>
          /\ enabled
          /\ current_trace = Some(TraceNew(started[1].architecture,
                                           started[1].input_tokens))
    /\ (last.op = "stop_trace" /\ last.result = <<"Some">>) =>
          /\ HeldTrace # None
          /\ HeldTrace[1].architecture = started[1].architecture
          /\ HeldTrace[1].input_tokens = started[1].input_tokens
          /\ TraceMatches(HeldTrace[1])

\* a trace that held activations was replaced by start_trace, and the trace
\* recorded after it was returned
C4_Witness ==
    /\ last.op = "stop_trace"
    /\ last.result = <<"Some">>
    /\ started[1].discarded
    /\ \E p \in Pairs : expected[p] # None
    /\ \E p \in Pairs : p[1] < num_layers /\ expected[p] = None

\* C5: stop_trace leaves the session Idle; it returns the trace when the
\* session was Active and None when it was Idle, so the second of two
\* stop_trace calls in a row returns None.
C5_StopLeavesIdle ==
    last.op = "stop_trace" =>
       /\ ~enabled
       /\ current_trace = None
       /\ last.result = IF last.active THEN <<"Some">> ELSE <<"None">>
       /\ last.active => (HeldTrace # None /\ TraceMatches(HeldTrace[1]))
       /\ last.again => last.result = <<"None">>

C5_Witness ==
    /\ last.op = "stop_trace"
    /\ last.again
    /\ last.result = <<"None">>
    /\ HeldTrace # None
    /\ DOMAIN HeldTrace[1].activations # {}

Holders == {p \in Producers : pc[p] \in {"locked", "added"}}

\* C8: at most one producer is behind the write lock at a time, and no update
\* is lost: the trace holds an activation for exactly the (layer, component)
\* pairs whose add ran since start_trace, each one the whole activation of the
\* producer that added last under that pair.
C8_WritersExcludeNoneLost ==
    /\ Cardinality(Holders) <= 1
    /\ \A p \in Holders : lock = Some(p)
    /\ (current_trace # None /\ Holders = {}) => TraceMatches(current_trace[1])
    /\ \A p \in Producers :
          (enabled /\ pc[p] = "idle" /\ res[p] = Some(Ok)) => current_trace # None

\* two producers are inside record for the same key with different tensors,
\* one behind the lock and one waiting for it, and the trace already holds
\* another key
C8_Witness ==
    \E p, q \in Producers :
       /\ pc[p] = "added"
       /\ pc[q] = "acquire"
       /\ arg[p][1].layer = arg[q][1].layer
       /\ arg[p][1].component = arg[q][1].component
       /\ arg[p][1].data # arg[q][1].data
       /\ Cardinality(DOMAIN current_trace[1].activations) >= 2

\* C9: once a writer has panicked holding the write lock, no start_trace,
\* stop_trace or record fails on the poisoned lock, and the trace keeps what
\* was added before the panic: it holds exactly what was added since
\* start_trace, and so does the trace a later stop_trace returns.
C9_PoisonRecovered ==
    poisoned =>
       /\ last.result # LockError
       /\ \A p \in Producers : res[p] # Some(LockError)
       /\ (current_trace # None /\ Holders = {}) => TraceMatches(current_trace[1])
       /\ (last.op = "stop_trace" /\ last.active) =>
             /\ last.result = <<"Some">>
             /\ HeldTrace # None
             /\ TraceMatches(HeldTrace[1])

\* a producer panicked after its add, another producer recorded a different
\* key behind the poisoned lock, and stop_trace returned both
C9_Witness ==
    /\ poisoned
    /\ after_poison
    /\ last.op = "stop_trace"
    /\ last.result = <<"Some">>
    /\ \E p, q \in Producers, c \in Components :
          /\ res[p] = Some(<<"Panicked", "added", 0, c>>)
          /\ res[q] = Some(Ok)
          /\ TraceKey(0, c) \in DOMAIN HeldTrace[1].activations
          /\ Cardinality(DOMAIN HeldTrace[1].activations) >= 2

(***************************************************************************)
(* Properties of the chunk store under SpecStore.                          *)
(***************************************************************************)
\* C10: once flush has been called after the last accepted store, load of the
\* i-th chunk of a key returns a tensor with the shape and the float values,
\* bit for bit and in index order, of the i-th tensor stored under that key,
\* for every key and every i.
C10_StoreLoadRoundTrip ==
    ~unflushed =>
       \A p \in StorePairs : \A i \in 1 .. Len(stored[p]) :
          LET r == Load(p[1], p[2], i - 1)
          IN  /\ r[1] = "Ok"
              /\ ShapeOf(r[2]) = ShapeOf(stored[p][i].data)
              /\ TensorIter(r[2]) = TensorIter(stored[p][i].data)

\* after stores interleaved over two keys and a flush, load returned the
\* second chunk of a key, which was stored from a column-major tensor
C10_Witness ==
    /\ ~unflushed
    /\ io.op = "load"
    /\ io.chunk_idx = 1
    /\ io.result[1] = "Ok"
    /\ TensorIter(io.result[2]) = TensorIter(TensorB)
    /\ stored[<<io.layer, io.component>>][2].data = TensorB
    /\ FilePath(0, "residual") \in DOMAIN files
    /\ Cardinality({p \in StorePairs : Len(stored[p]) >= 2}) >= 2

\* the (layer, component) pairs the configuration lets through, written from
\* the configuration's two lists
Captured(cfg) ==
    {p \in StorePairs :
        /\ cfg.capture_layers = << >>
              \/ p[1] \in {cfg.capture_layers[i] : i \in DOMAIN cfg.capture_layers}
        /\ p[2] \in {cfg.capture_components[i] : i \in DOMAIN cfg.capture_components}}

\* C11: a store call whose layer is excluded by a non-empty capture_layers, or
\* whose component is not in capture_components, returns Ok and changes
\* nothing: the files, the writers, the metadata index and the offset
\* counters are the same after the call as before it.
C11_FilteredStoreChangesNothing ==
    [][(io'.op = "store" /\ <<io'.layer, io'.component>> \notin Captured(config))
          => (io'.result = Ok
              /\ UNCHANGED <<config, metadata, offsets, writers, files>>)]_vars

\* a store for an excluded component returned Ok in a store that holds no
\* file, no writer, no metadata and no offset counter
C11_Witness ==
    /\ io.op = "store"
    /\ io.result = Ok
    /\ config.capture_components # << >>
    /\ <<io.layer, io.component>> \notin Captured(config)
    /\ DOMAIN files = {} /\ DOMAIN writers = {}
    /\ DOMAIN metadata = {} /\ DOMAIN offsets = {}

\* C13: load returns a NotFound error when the key holds no chunk and when
\* chunk_idx is not below the number of chunks stored under the key, and,
\* once flushed, it succeeds for every chunk_idx below that number.
C13_LoadNotFoundOutOfRange ==
    \A p \in StorePairs : \A chunk_idx \in 0 .. (MaxChunks + 1) :
       LET r == Load(p[1], p[2], chunk_idx)
       IN  /\ stored[p] = << >>
              => r = <<"NotFound", "No data for layer/component">>
           /\ (stored[p] # << >> /\ chunk_idx >= Len(stored[p]))
              => r = <<"NotFound", "Chunk index out of range">>
           /\ (chunk_idx < Len(stored[p]) /\ ~unflushed) => r[1] = "Ok"

\* after a flush, load has returned NotFound for the chunk index just past the
\* last chunk of a key whose chunks all load, while another key holds nothing
C13_Witness ==
    /\ ~unflushed
    /\ io.op = "load"
    /\ io.result = <<"NotFound", "Chunk index out of range">>
    /\ io.chunk_idx = Len(stored[<<io.layer, io.component>>])
    /\ io.chunk_idx = MaxChunks
    /\ \A i \in 0 .. (io.chunk_idx - 1) : Load(io.layer, io.component, i)[1] = "Ok"
    /\ \E p \in Captured(config) :
          Load(p[1], p[2], 0) = <<"NotFound", "No data for layer/component">>

\* the chunks the index lists under the key of a (layer, component) pair
ChunksOf(p) ==
    IF StorageKey(p[1], p[2]) \in DOMAIN metadata
    THEN metadata[StorageKey(p[1], p[2])] ELSE << >>

\* C12: in every reachable state, for each key the index lists the chunks in
\* the order their store calls arrived, chunk 0 is at offset 0, each later
\* chunk starts where the one before it ends, and the key's offset counter is
\* the sum of the sizes of its chunks.
C12_OffsetsChainPerKey ==
    \A p \in StorePairs :
       LET chunks == ChunksOf(p)
           key == StorageKey(p[1], p[2])
       IN  /\ Len(chunks) = Len(stored[p])
           /\ \A i \in DOMAIN chunks :
                 /\ chunks[i].shape = ShapeOf(stored[p][i].data)
                 /\ chunks[i].token_range = stored[p][i].token_range
                 /\ chunks[i].layer = p[1] /\ chunks[i].component = p[2]
                 /\ chunks[i].offset =
                       IF i = 1 THEN 0
                       ELSE chunks[i - 1].offset + chunks[i - 1].size_bytes
           /\ key \in DOMAIN offsets => offsets[key] = SumSizes(chunks)
           /\ chunks # << >> => key \in DOMAIN offsets

\* two keys hold two chunks each, of different shapes and sizes, the second
\* one of each key where the first one ends
C12_Witness ==
    \E p, q \in StorePairs :
       /\ p # q
       /\ \A r \in {p, q} :
             /\ Len(ChunksOf(r)) = 2
             /\ ChunksOf(r)[1].shape # ChunksOf(r)[2].shape
             /\ ChunksOf(r)[2].offset = ChunksOf(r)[1].size_bytes
       /\ ChunksOf(p)[2].offset # ChunksOf(q)[2].offset

\* the store as ActivationStorage::new leaves it, in a directory without
\* backing files
JustConstructed ==
    /\ DOMAIN writers = {}
    /\ DOMAIN metadata = {}
    /\ DOMAIN offsets = {}
    /\ \A p \in StorePairs : FilePath(p[1], p[2]) \notin DOMAIN files
    /\ TotalSizeBytes = 0

\* the chunk that a store call has just added is chunk 0 of its key, is at
\* offset 0 and loads back as the tensor stored
FirstChunkOfKey ==
    LET p == <<io.layer, io.component>>
    IN  /\ Len(ChunksOf(p)) = 1
        /\ ChunksOf(p)[1].offset = 0
        /\ Load(p[1], p[2], 0)[1] = "Ok"
        /\ ShapeOf(Load(p[1], p[2], 0)[2]) = ShapeOf(stored[p][1].data)
        /\ TensorIter(Load(p[1], p[2], 0)[2]) = TensorIter(stored[p][1].data)

\* C15: cleanup returns Ok and leaves the store as it was just constructed:
\* no writer, no metadata, no offset counter, no backing file and a total
\* size of 0; a store call that the configuration lets through, issued right
\* after it, adds chunk 0 of its key at offset 0, which loads back as stored.
C15_CleanupResets ==
    [][/\ io'.op = "cleanup" => (io'.result = Ok /\ JustConstructed')
       /\ (io.op = "cleanup" /\ io'.op = "store"
              /\ <<io'.layer, io'.component>> \in Captured(config))
            => FirstChunkOfKey']_vars

\* cleanup has returned Ok after it removed the backing files of two keys
C15_Witness ==
    /\ io.op = "cleanup"
    /\ io.result = Ok
    /\ ~io.again
    /\ io.removed = 2
    /\ JustConstructed

\* C16: every cleanup call returns Ok and leaves available_layers() empty,
\* and a cleanup call that follows a cleanup call changes nothing in the
\* store.
C16_CleanupIdempotent ==
    [][/\ io'.op = "cleanup" => (io'.result = Ok /\ AvailableLayers' = << >>)
       /\ (io.op = "cleanup" /\ io'.op = "cleanup")
            => UNCHANGED <<config, metadata, offsets, writers, files>>]_vars

\* the second of two cleanup calls in a row has returned Ok, the first one
\* having removed backing files
C16_Witness ==
    /\ io.op = "cleanup"
    /\ io.again
    /\ io.result = Ok
    /\ io.removed > 0
    /\ AvailableLayers = << >>

(***************************************************************************)
(* Properties of load when backing files are shortened, under SpecShort.   *)
(***************************************************************************)
\* the chunks of existing backing files: <<layer, component, chunk_idx>>
ChunksOnDisk ==
    {c \in StoreLayers \X StoreComponents \X (0 .. MaxChunks) :
        /\ c[3] < Len(ChunksOf(<<c[1], c[2]>>))
        /\ FilePath(c[1], c[2]) \in DOMAIN files}

\* the number of bytes the backing file holds for a chunk
Available(c) ==
    LET meta == ChunksOf(<<c[1], c[2]>>)[c[3] + 1]
        len == Len(files[FilePath(c[1], c[2])])
    IN  IF len <= meta.offset THEN 0
        ELSE IF len >= meta.offset + meta.size_bytes THEN meta.size_bytes
        ELSE len - meta.offset

\* the number of bytes the shape of a chunk asks for
Wanted(c) ==
    LET shape == ChunksOf(<<c[1], c[2]>>)[c[3] + 1].shape
    IN  shape[1] * shape[2] * shape[3] * 4

\* C14 as stated: load fails with InvalidData whenever the bytes available
\* for the chunk are not product(shape) * 4, also when the backing file was
\* shortened after the chunk was stored.
C14_ShortChunkInvalidData ==
    \A c \in ChunksOnDisk :
       Available(c) # Wanted(c) => Load(c[1], c[2], c[3])[1] = "InvalidData"

\* C14 as the code has it: when the backing file holds fewer bytes for the
\* chunk than product(shape) * 4, load fails with UnexpectedEof, from
\* read_exact; it succeeds when all the bytes are there, and it returns
\* InvalidData for no chunk that store has written.
C14_ShortChunkUnexpectedEof ==
    \A c \in ChunksOnDisk :
       /\ Available(c) # Wanted(c) => Load(c[1], c[2], c[3]) = <<"UnexpectedEof">>
       /\ Available(c) = Wanted(c) => Load(c[1], c[2], c[3])[1] = "Ok"

\* load has failed with UnexpectedEof on the second chunk of a file that was
\* shortened in the middle of that chunk, while the first chunk still loads
C14_Witness ==
    /\ io.op = "load"
    /\ io.result = <<"UnexpectedEof">>
    /\ io.chunk_idx = 1
    /\ <<io.layer, io.component, 1>> \in ChunksOnDisk
    /\ Available(<<io.layer, io.component, 1>>) > 0
    /\ Load(io.layer, io.component, 0)[1] = "Ok"

(***************************************************************************)
(* Properties of the chunk store when store calls may fail, under          *)
(* SpecFaults.                                                             *)
(***************************************************************************)
\* C17: when store calls have failed with an I/O error, at file creation or
\* after part of the bytes were appended, every chunk that a successful store
\* call has added, before or after the failure, still loads back, once
\* flushed, with the shape and the floats of the tensor stored.
C17_ChunksLoadAfterFailedStore ==
    (failures > 0 /\ ~unflushed) =>
       \A p \in StorePairs : \A i \in 1 .. Len(stored[p]) :
          LET r == Load(p[1], p[2], i - 1)
          IN  /\ r[1] = "Ok"
              /\ ShapeOf(r[2]) = ShapeOf(stored[p][i].data)
              /\ TensorIter(r[2]) = TensorIter(stored[p][i].data)

(***************************************************************************)
(* Properties of the chunk store when cleanup may fail, under               *)
(* SpecCleanupFaults.                                                       *)
(***************************************************************************)
\* C35: when cleanup has returned an I/O error part-way, every chunk still
\* listed in the index whose backing file remains loads back, once flushed,
\* with the shape and the floats of the tensor stored, and so does every
\* chunk stored after the failure.
C35_ConsistentAfterFailedCleanup ==
    (failures > 0 /\ ~unflushed) =>
       \A p \in StorePairs : \A i \in 1 .. Len(stored[p]) :
          FilePath(p[1], p[2]) \in DOMAIN files =>
             LET r == Load(p[1], p[2], i - 1)
             IN  /\ r[1] = "Ok"
                 /\ ShapeOf(r[2]) = ShapeOf(stored[p][i].data)
                 /\ TensorIter(r[2]) = TensorIter(stored[p][i].data)

(***************************************************************************)
(* Properties of the ring buffer under SpecRing.                           *)
(***************************************************************************)
\* the smaller of two numbers, written out for the statements below
Least(a, b) == IF a <= b THEN a ELSE b

\* C18: with k tensors pushed since construction or the last clear into a
\* buffer of capacity c, recent(n) returns min(n, min(k, c)) tensors, the i-th
\* of them (from 0) being the (k-1-i)-th tensor pushed, for every n.
C18_RecentNewestFirst ==
    \A n \in 0 .. (MaxCapacity + 2) :
       LET k == Len(pushed)
           r == Recent(n)
       IN  /\ Len(r) = Least(n, Least(k, Len(buffer)))
           /\ \A i \in 0 .. (Len(r) - 1) : r[i + 1] = pushed[k - i]

\* recent(3) on a buffer of capacity 3, after five pushes that went past the
\* end of the buffer, has returned the last three tensors pushed, newest
\* first, and they are three different tensors
C18_Witness ==
    /\ rb.op = "recent" /\ rb.n = 3
    /\ Len(buffer) = 3
    /\ Len(pushed) = 5
    /\ rb.result = <<pushed[5], pushed[4], pushed[3]>>
    /\ Cardinality({pushed[3], pushed[4], pushed[5]}) = 3

\* C19: all() returns the min(k, c) tensors pushed last, oldest first.
C19_AllOldestFirst ==
    LET k == Len(pushed)
        kept == Least(k, Len(buffer))
    IN  All = [i \in 1 .. kept |-> pushed[k - kept + i]]

\* all() on a buffer of capacity 3 whose cursor sits in the middle after four
\* pushes has returned the last three tensors pushed, oldest first
C19_Witness ==
    /\ rb.op = "all"
    /\ Len(buffer) = 3
    /\ Len(pushed) = 4
    /\ write_pos = 1
    /\ rb.result = <<pushed[2], pushed[3], pushed[4]>>
    /\ Cardinality({pushed[2], pushed[3], pushed[4]}) = 3

\* what holds of the fields in every state
RingInvariant ==
    /\ Len(buffer) >= 1
    /\ write_pos \in 0 .. (Len(buffer) - 1)
    /\ RingLen = Least(Len(pushed), Len(buffer))
    /\ Cardinality({i \in DOMAIN buffer : buffer[i] # None}) = RingLen
    /\ write_pos = Len(pushed) % Len(buffer)

\* what holds of every step: the capacity stays, and a push writes the slot
\* at the cursor and no other
RingStep ==
    /\ Capacity' = Capacity
    /\ rb'.op = "push" =>
          /\ buffer'[write_pos + 1] = Some(pushed'[Len(pushed')])
          /\ \A i \in DOMAIN buffer : i # write_pos + 1 => buffer'[i] = buffer[i]

\* C20: in every reachable state 0 <= write_pos < c, len() is the smaller of
\* c and the number of pushes since construction or the last clear, as many
\* slots are occupied as len() says, write_pos is that number of pushes
\* modulo c; capacity() never changes, and each push overwrites the slot at
\* the cursor and touches no other slot.
C20_RingFieldsConsistent == []RingInvariant /\ [][RingStep]_vars

\* a buffer of capacity 3 is full, its cursor has wrapped to slot 1 and the
\* last push has overwritten slot 0
C20_Witness ==
    /\ rb.op = "push"
    /\ Len(buffer) = 3
    /\ Len(pushed) = 4
    /\ RingLen = 3
    /\ write_pos = 1
    /\ buffer[1] = Some(pushed[4])

\* the fields of a buffer as ActivationRingBuffer::new leaves them, for the
\* capacity the buffer has
FreshRing ==
    /\ buffer = [i \in 1 .. Len(buffer) |-> None]
    /\ write_pos = 0
    /\ count = 0

\* C21: clear empties every slot and sets cursor and count to zero, keeping
\* the capacity: after it is_empty() holds, recent(n) and all() return
\* nothing, and the fields are those of a newly built buffer of the same
\* capacity, which they stay equal to until the next push.
C21_ClearIsFresh ==
    /\ [](rb.op = "clear" =>
             /\ FreshRing
             /\ IsEmpty
             /\ All = << >>
             /\ \A n \in 0 .. (MaxCapacity + 1) : Recent(n) = << >>)
    /\ [](pushed = << >> => FreshRing)
    /\ [][rb'.op = "clear" => Capacity' = Capacity]_vars

\* clear has emptied a full buffer of capacity 3
C21_Witness ==
    /\ rb.op = "clear"
    /\ rb.dropped = 3
    /\ Len(buffer) = 3
    /\ FreshRing
    /\ IsEmpty

\* a sequence back to front
Reversed(seq) == [i \in 1 .. Len(seq) |-> seq[Len(seq) + 1 - i]]

\* C36: in every reachable state of a ring buffer all() is the reverse of
\* recent(len()), and both contain exactly len() tensors.
C36_AllIsReverseOfRecent ==
    /\ All = Reversed(Recent(RingLen))
    /\ Len(All) = RingLen
    /\ Len(Recent(RingLen)) = RingLen

\* all() on a full buffer of capacity 3 whose cursor has wrapped to slot 2
\* after five pushes has returned three different tensors, the reverse of
\* what recent(3) returns
C36_Witness ==
    /\ rb.op = "all"
    /\ Len(buffer) = 3
    /\ Len(pushed) = 5
    /\ write_pos = 2
    /\ RingLen = 3
    /\ Cardinality({rb.result[i] : i \in 1 .. 3}) = 3
    /\ rb.result = Reversed(Recent(3))

(***************************************************************************)
(* Properties of the memory estimator under SpecEstimator.                 *)
(***************************************************************************)
\* the product of the factors as a number of twice the width of a usize,
\* which no product of the modelled arguments exceeds
RECURSIVE Exact(_)
Exact(factors) ==
    IF Len(factors) = 1 THEN ToBytes(factors[1], 2 * UsizeBytes)
    ELSE SubSeq(Product(Exact(SubSeq(factors, 1, Len(factors) - 1)),
                        ToBytes(factors[Len(factors)], 2 * UsizeBytes)),
                1, 2 * UsizeBytes)

\* a usize as a number of twice the width
Widen(a) == a \o [i \in 1 .. UsizeBytes |-> 0]

SuggestReturned == me.op = "suggest_strategy" /\ me.result # None
SuggestedOk == SuggestReturned /\ me.result[1][1] = "Ok"
Suggested == me.result[1][2]

\* the estimate E of the call of suggest_strategy, and its limit
SuggestE == Exact(<<me.args[1], 3, 1, 1024, me.args[2], 4>>)
SuggestLimit == Exact(me.args[3])
SuggestLimit4 == Exact(me.args[3] \o <<4>>)

\* suggest_strategy cuts at the limit and at four times the limit
ThresholdsHold ==
    SuggestedOk =>
        /\ Suggested = InMemory <=> Less(SuggestE, SuggestLimit)
        /\ Suggested[1] = "SelectiveLayers" <=>
               /\ ~Less(SuggestE, SuggestLimit)
               /\ Less(SuggestE, SuggestLimit4)
        /\ Suggested = Streaming <=> ~Less(SuggestE, SuggestLimit4)

\* C22: suggest_strategy returns InMemory exactly when E < limit,
\* SelectiveLayers exactly when limit <= E < 4 * limit and Streaming exactly
\* when E >= 4 * limit, for E = estimate_full_capture(n, h, 1, 1024); with a
\* limit of 4 * 1024^3 it returns InMemory for (12, 768) and Streaming for
\* (80, 8192).  The code returns SelectiveLayers for (80, 8192).
C22_ThresholdsAndExamples ==
    /\ ThresholdsHold
    /\ SuggestReturned /\ me.args = <<12, 768, <<4, 1024, 1024, 1024>>>>
          => me.result = Some(<<"Ok", InMemory>>)
    /\ SuggestReturned /\ me.args = <<80, 8192, <<4, 1024, 1024, 1024>>>>
          => me.result = Some(<<"Ok", Streaming>>)

EstimateReturned == me.op = "estimate_full_capture" /\ me.result # None

\* C23: estimate_full_capture returns num_layers * 3 * batch_size * seq_len *
\* hidden_size * 4 for all the modelled arguments, in a build with overflow
\* checks and in one without: no product wraps around the usize.
C23_EstimateIsExactProduct ==
    EstimateReturned =>
        /\ me.result[1][1] = "Ok"
        /\ Widen(me.result[1][2]) =
              Exact(<<me.args[1], 3, me.args[3], me.args[4], me.args[2], 4>>)

\* an estimate that does not fit in 32 bits has been returned
C23_Witness ==
    /\ EstimateReturned
    /\ me.args = <<80, 16384, 64, 131072>>
    /\ me.result[1][1] = "Ok"
    /\ ~IsSmall(me.result[1][2])
    /\ \E i \in 5 .. UsizeBytes : me.result[1][2][i] # 0

\* the set of the elements of a sequence
Range(seq) == {seq[i] : i \in DOMAIN seq}

\* C24: for every num_layers >= 1 the list of SelectiveLayers is the set
\* {0, 1, mid-1, mid, mid+1, n-2, n-1}, mid = n / 2, restricted to [0, n):
\* every element is below n and no layer index appears more than once.  The
\* code keeps the duplicates, and with overflow checks it panics for n = 1.
C24_KeyLayersAreASet ==
    SuggestReturned /\ me.args[1] >= 1
        /\ ~Less(SuggestE, SuggestLimit) /\ Less(SuggestE, SuggestLimit4) =>
            LET n == me.args[1]
                mid == n \div 2
            IN  /\ SuggestedOk
                /\ Suggested[1] = "SelectiveLayers"
                /\ Range(Suggested[2]) =
                      {0, 1, mid - 1, mid, mid + 1, n - 2, n - 1} \cap (0 .. (n - 1))
                /\ \A i, j \in DOMAIN Suggested[2] :
                      Suggested[2][i] = Suggested[2][j] => i = j

(***************************************************************************)
(* Properties of the component allow-list under SpecCapture.               *)
(***************************************************************************)
\* the allow-list as configured: that of a new tracer, or the list handed to
\* the last set_capture_components
Allowed ==
    IF given = None THEN {"residual", "attn_out", "mlp_out"} ELSE Range(given[1])

\* C25: should_capture(c) is true exactly when c is in the configured
\* allow-list, {residual, attn_out, mlp_out} for a new tracer and the list
\* of the last set_capture_components afterwards, whether the session is
\* Idle or Active; the call changes no state.
C25_ShouldCaptureIsMembership ==
    /\ [](last.op = "should_capture" =>
             last.result[2] = (last.result[1] \in Allowed))
    /\ [][last'.op = "should_capture" =>
             UNCHANGED <<sessionVars, captureVars, held, started, expected,
                         idle_recorded, concVars, captureFrame>>]_vars

\* while Idle, a name that only a set_capture_components call allowed is
\* found in the list
C25_Witness ==
    /\ last.op = "should_capture"
    /\ ~last.active
    /\ given = Some(<<"mlp_out", "residual", "mlp_out">>)
    /\ last.result = <<"mlp_out", TRUE>>

\* C26: a tensor delivered to record while Active for a component that is
\* not in the allow-list is dropped: a record call changes the trace only
\* at activations whose component is in the allow-list.  The code stores
\* every component.
C26_RecordDropsFiltered ==
    [][last'.op = "record" /\ current_trace # None /\ current_trace' # None =>
          \A key \in DOMAIN current_trace'[1].activations :
              (\/ key \notin DOMAIN current_trace[1].activations
               \/ current_trace'[1].activations[key] #
                     current_trace[1].activations[key])
                 => current_trace'[1].activations[key].component
                       \in Range(capture_components)]_vars

(***************************************************************************)
(* Properties of the introspection of the store under SpecIndex.           *)
(***************************************************************************)
\* the bytes of the f32 elements of a tensor of the given shape
SizeOf(shape) == 4 * shape[1] * shape[2] * shape[3]

\* the sum of the sizes of the tensors of accepted store calls
RECURSIVE SizeOfCalls(_)
SizeOfCalls(calls) ==
    IF calls = << >> THEN 0
    ELSE SizeOf(Head(calls).data.shape) + SizeOfCalls(Tail(calls))

RECURSIVE SizeOfPairs(_)
SizeOfPairs(pairs) ==
    IF pairs = {} THEN 0
    ELSE LET p == CHOOSE q \in pairs : TRUE
         IN  SizeOfCalls(stored[p]) + SizeOfPairs(pairs \ {p})

\* the layers of which a chunk is stored
StoredLayers ==
    {layer \in StoreLayers :
        \E component \in StoreComponents : stored[<<layer, component>>] # << >>}

\* C27: in every reachable state total_size_bytes() is the sum of size_bytes
\* over all chunks of all keys, and available_layers() is the strictly
\* ascending list of exactly the layers that have a stored chunk, each once
\* even when several components of the layer are stored; neither call
\* changes the store.
C27_IntrospectionOfIndex ==
    /\ [](io.op = "total_size_bytes" => io.result = SizeOfPairs(StorePairs))
    /\ [](io.op = "available_layers" =>
             /\ Range(io.result) = StoredLayers
             /\ \A i, j \in DOMAIN io.result : i < j => io.result[i] < io.result[j])
    /\ [][io'.op \in {"total_size_bytes", "available_layers"} =>
             UNCHANGED <<config, metadata, offsets, writers, files, stored,
                         unflushed, failures, storeFrame>>]_vars

\* two chunks of different sizes are stored under one key and the total has
\* been asked
C27_Witness ==
    /\ io.op = "total_size_bytes"
    /\ io.result = 24
    /\ \E p \in StorePairs :
          /\ Len(stored[p]) = 2
          /\ SizeOf(stored[p][1].data.shape) # SizeOf(stored[p][2].data.shape)

(***************************************************************************)
(* Properties of the accessors of an Activation under SpecAccess.          *)
(***************************************************************************)
\* the product of the dimensions of a shape
RECURSIVE ProductOf(_)
ProductOf(shape) ==
    IF shape = << >> THEN 1 ELSE Head(shape) * ProductOf(Tail(shape))

\* the stored shape is not that of the data
Inconsistent(a) == Len(a.shape) # 3 \/ ProductOf(a.shape) # Len(a.data)

\* try_as_array returns an InvalidShape error for every Activation whose
\* shape is inconsistent with its data
StrictAccessorRejects ==
    acc.op = "try_as_array" /\ Inconsistent(act) => acc.result[1] = "InvalidShape"

\* C28: for an Activation whose shape is inconsistent with its data (wrong
\* rank, or a product of the shape that is not the length of the data),
\* try_as_array returns an InvalidShape error and as_array returns the
\* zero-filled 1x1x1 tensor and never aborts.  The code panics in as_array
\* when the shape has fewer than three dimensions.
C28_AccessorsOnBadShape ==
    Inconsistent(act) =>
        /\ acc.op = "try_as_array" => acc.result[1] = "InvalidShape"
        /\ acc.op = "as_array" => acc.result = <<"returned", Zeros(<<1, 1, 1>>)>>

(***************************************************************************)
(* Properties of the hook registry under SpecHooks.                        *)
(***************************************************************************)
\* the register call at position i is the last one made for its name
IsLastOfName(i) ==
    \A j \in DOMAIN registrations :
        registrations[j].name = registrations[i].name => j <= i

\* the positions of the register calls whose hook is registered at the hook
\* point and enabled
LivePositions(hook_point) ==
    {i \in DOMAIN registrations :
        /\ IsLastOfName(i)
        /\ registrations[i].hook_point = hook_point
        /\ registrations[i].name \in DOMAIN hooks
        /\ hooks[registrations[i].name].enabled
        /\ registry_enabled}

\* the enabled hooks registered at the hook point, in registration order
RECURSIVE LiveFrom(_, _)
LiveFrom(hook_point, i) ==
    IF i > Len(registrations) THEN << >>
    ELSE (IF i \in LivePositions(hook_point) THEN <<registrations[i]>> ELSE << >>)
            \o LiveFrom(hook_point, i + 1)

\* each hook of the sequence is fed the last modification, or the data
RECURSIVE Chained(_, _, _)
Chained(live, data, modification) ==
    IF live = << >> THEN [result |-> modification, invoked |-> << >>]
    ELSE LET input == IF modification = None THEN data ELSE modification[1]
             out == Apply(Head(live).function, input)
             rest == Chained(Tail(live), data,
                             IF out = None THEN modification ELSE out)
         IN  [result |-> rest.result,
              invoked |-> <<[name |-> Head(live).name, input |-> input]>>
                             \o rest.invoked]

ExecuteAsChained ==
    hr.op = "execute" =>
        LET chained == Chained(LiveFrom(hr.hook_point, 1), hr.data, None)
        IN  hr.invoked = chained.invoked /\ hr.result = chained.result

\* no name has been handed to register twice
NamesUnique ==
    \A i, j \in DOMAIN registrations :
        registrations[i].name = registrations[j].name => i = j

\* execute runs the chain of the enabled hooks of the point as long as every
\* name was registered once
ExecuteWhenNamesUnique == NamesUnique => ExecuteAsChained

\* C29: execute(point, data) runs the enabled hooks registered at the point
\* in registration order, feeds each the output of the last hook that
\* returned a modification (the data if none did), and returns the last
\* modification, or None when no hook modified the data.  The code runs a
\* hook once per register call made for its name at the point.
C29_ExecuteRunsRegisteredHooks == ExecuteAsChained

\* the names handed to register for the hook point
NamesAt(hook_point) ==
    {registrations[i].name :
        i \in {j \in DOMAIN registrations : registrations[j].hook_point = hook_point}}

\* the hook of the name is removed or disabled, or the registry is
Silenced(name) ==
    \/ name \notin DOMAIN hooks
    \/ ~hooks[name].enabled
    \/ ~registry_enabled

\* C30: a hook disabled with set_enabled(name, false), a hook removed with
\* remove(name) and every hook while the registry is globally disabled is
\* never invoked by execute, so execute returns None when all hooks of the
\* point are in one of those states; set_enabled on a name that is not
\* registered returns HookNotFound and changes nothing.
C30_SilencedHooksNeverRun ==
    /\ [](hr.op = "execute" =>
             /\ \A i \in DOMAIN hr.invoked : ~Silenced(hr.invoked[i].name)
             /\ (\A name \in NamesAt(hr.hook_point) : Silenced(name))
                   => hr.invoked = << >> /\ hr.result = None)
    /\ [][hr'.op = "set_enabled" /\ hr'.name \notin DOMAIN hooks =>
             /\ hr'.result = HookNotFound(hr'.name)
             /\ UNCHANGED <<hooks, by_hook_point, registry_enabled, registrations,
                            hookFrame>>]_vars

\* a hook that modifies the data is registered at the point and disabled, the
\* registry is enabled, and execute has returned None
C30_Witness ==
    /\ hr.op = "execute"
    /\ hr.result = None
    /\ registry_enabled
    /\ \E i \in DOMAIN registrations :
          /\ registrations[i].hook_point = hr.hook_point
          /\ registrations[i].function = "push1"
          /\ registrations[i].name \in DOMAIN hooks
          /\ ~hooks[registrations[i].name].enabled

(***************************************************************************)
(* More properties of the chunk store under SpecStore.                     *)
(***************************************************************************)
\* how many chunks the index lists for each pair
ChunkCount == [p \in StorePairs |-> Len(ChunksOf(p))]

\* C31: with an empty capture_layers every layer index is accepted by store
\* and only the component list filters: the call adds a chunk under its key
\* when its component is listed.  With an empty capture_components every
\* store call leaves the files, writers, index and offset counters alone.
C31_EmptyListsOfConfig ==
    [][io'.op = "store" =>
          /\ (/\ config.capture_layers = << >>
              /\ io'.component \in Range(config.capture_components))
                => /\ io'.result = Ok
                   /\ ChunkCount'[<<io'.layer, io'.component>>] =
                         ChunkCount[<<io'.layer, io'.component>>] + 1
          /\ config.capture_components = << >>
                => /\ io'.result = Ok
                   /\ UNCHANGED <<metadata, offsets, writers, files>>]_vars

\* layer 1, which no list names, has a chunk in a store whose capture_layers
\* is empty
C31_Witness ==
    /\ io.op = "store" /\ io.layer = 1 /\ io.component = "residual"
    /\ config.capture_layers = << >>
    /\ config.capture_components = <<"residual">>
    /\ Len(ChunksOf(<<1, "residual">>)) = 1
    /\ FilePath(1, "residual") \in DOMAIN files

(***************************************************************************)
(* More properties of the tracer under Spec.                               *)
(***************************************************************************)
\* C32: after any sequence of start_trace, stop_trace and record calls
\* is_enabled() is true exactly when an in-progress trace is present and false
\* exactly when none is.
C32_EnabledIffTracePresent == IsEnabled <=> current_trace # None

\* the session is Idle again after a session in which a tensor was recorded
C32_Witness ==
    /\ last.op = "stop_trace"
    /\ last.active
    /\ ~IsEnabled
    /\ current_trace = None
    /\ HeldTrace # None /\ DOMAIN HeldTrace[1].activations # {}

\* the layers of the activations of the trace in a cell
LayersIn(cell) ==
    IF cell = None THEN {}
    ELSE {cell[1].activations[key].layer : key \in DOMAIN cell[1].activations}

\* C33: a record call that fails with LayerNotFound while the session is
\* Active leaves the in-progress trace and the enabled flag unchanged; the
\* trace in progress and the trace returned by stop_trace hold no entry for
\* a rejected layer and hold what was recorded before the failed call.
C33_RejectedRecordChangesNothing ==
    /\ [][last'.op = "record" /\ last'.result[1] = "LayerNotFound" =>
             /\ last'.active
             /\ UNCHANGED <<current_trace, enabled>>]_vars
    /\ [](\A layer \in LayersIn(current_trace) \cup LayersIn(HeldTrace) :
             layer < num_layers)
    /\ [](current_trace # None => TraceMatches(current_trace[1]))

\* a record call was rejected in a session that holds an activation
C33_Witness ==
    /\ last.op = "record"
    /\ last.result = LayerNotFound(num_layers, num_layers)
    /\ enabled
    /\ LayersIn(current_trace) = {0}

(***************************************************************************)
(* Frame properties of the chunk store under SpecStore.                    *)
(***************************************************************************)
\* per pair: the chunk list, the offset counter and the bytes of the file
ChunkIndex == [p \in StorePairs |-> ChunksOf(p)]
OffsetCounter ==
    [p \in StorePairs |->
        IF StorageKey(p[1], p[2]) \in DOMAIN offsets
        THEN Some(offsets[StorageKey(p[1], p[2])]) ELSE None]
FileBytes ==
    [p \in StorePairs |->
        IF FilePath(p[1], p[2]) \in DOMAIN files
        THEN Some(files[FilePath(p[1], p[2])]) ELSE None]

\* one sequence starts with the other
IsPrefix(short, long) ==
    Len(short) <= Len(long) /\ SubSeq(long, 1, Len(short)) = short

\* C34: the store is append-only and keys are independent: a store call for
\* key A never changes the chunk list, offset counter or file bytes of any
\* other key B and never changes the metadata of the chunks already recorded
\* under A; only cleanup removes chunks.
C34_AppendOnlyIndependentKeys ==
    /\ [][io'.op = "store" =>
             /\ \A key \in (DOMAIN metadata \cup DOMAIN metadata')
                               \ {StorageKey(io'.layer, io'.component)} :
                   key \in DOMAIN metadata /\ key \in DOMAIN metadata'
                      /\ metadata'[key] = metadata[key]
             /\ \A key \in (DOMAIN offsets \cup DOMAIN offsets')
                               \ {StorageKey(io'.layer, io'.component)} :
                   key \in DOMAIN offsets /\ key \in DOMAIN offsets'
                      /\ offsets'[key] = offsets[key]
             /\ \A path \in (DOMAIN files \cup DOMAIN files')
                               \ {FilePath(io'.layer, io'.component)} :
                   path \in DOMAIN files /\ path \in DOMAIN files'
                      /\ files'[path] = files[path]
             /\ \A key \in DOMAIN metadata :
                   key \in DOMAIN metadata'
                      /\ IsPrefix(metadata[key], metadata'[key])]_vars
    /\ [][(\E key \in DOMAIN metadata :
                key \notin DOMAIN metadata'
                   \/ ~IsPrefix(metadata[key], metadata'[key]))
             => io'.op = "cleanup"]_vars

\* a second chunk has been stored under one key beside a chunk of another key
C34_Witness ==
    /\ io.op = "store" /\ io.component = "residual" /\ io.layer = 0
    /\ Len(ChunkIndex[<<0, "residual">>]) = 2
    /\ Len(ChunkIndex[<<0, "attn_out">>]) = 1
    /\ OffsetCounter[<<0, "attn_out">>] # None
    /\ FileBytes[<<0, "attn_out">>] # None


(***************************************************************************)
(* Totality of suggest_strategy under SpecEstimator.                       *)
(***************************************************************************)
\* C37: suggest_strategy is total: for every num_layers >= 1, every
\* hidden_size and every memory limit it returns a strategy, without an
\* arithmetic underflow or other failure, also where the SelectiveLayers
\* branch is taken and key_layers computes mid - 1 and num_layers - 2.
C37_SuggestStrategyIsTotal ==
    SuggestReturned /\ me.args[1] >= 1 => SuggestedOk


(***************************************************************************)
(* The per-hook-point index of the hook registry under SpecHooks.          *)
(***************************************************************************)
\* the names the index lists for the hook point
Indexed(hook_point) ==
    IF hook_point \in DOMAIN by_hook_point THEN by_hook_point[hook_point] ELSE << >>

\* C38: after any sequence of register, remove and clear calls, the names
\* handed to register need not differ, the index lists for each hook point
\* exactly the names of the registered hooks whose hook_point is that point,
\* each name once; so execute at a point invokes each such hook once and
\* never a hook registered at another point.
C38_IndexMatchesRegisteredHooks ==
    /\ \A hook_point \in HookPoints :
          LET names == Indexed(hook_point)
          IN  /\ Range(names) =
                    {name \in DOMAIN hooks : hooks[name].hook_point = hook_point}
              /\ \A i, j \in DOMAIN names : names[i] = names[j] => i = j
    /\ hr.op = "execute" =>
          /\ \A i, j \in DOMAIN hr.invoked :
                hr.invoked[i].name = hr.invoked[j].name => i = j
          /\ \A i \in DOMAIN hr.invoked :
                hooks[hr.invoked[i].name].hook_point = hr.hook_point


(***************************************************************************)
(* The keys of traces and of the store under SpecKeys.                     *)
(***************************************************************************)
\* what get(layer, component) finds in the trace in progress
Got(cell, p) == IF cell = None THEN None ELSE TraceGet(cell[1], p[1], p[2])

\* the activation, or the chunk, is the one of the pair
IsOf(x, p) == x.layer = p[1] /\ x.component = p[2]

\* different pairs have different trace keys, index keys and backing files
KeysDiffer ==
    \A p, q \in KeyPairs :
        p # q => /\ TraceKey(p[1], p[2]) # TraceKey(q[1], q[2])
                 /\ StorageKey(p[1], p[2]) # StorageKey(q[1], q[2])
                 /\ FilePath(p[1], p[2]) # FilePath(q[1], q[2])

\* what is found under a pair is of that pair
SlotsHoldTheirPair ==
    \A p \in KeyPairs :
        /\ Got(current_trace, p) # None => IsOf(Got(current_trace, p)[1], p)
        /\ StorageKey(p[1], p[2]) \in DOMAIN metadata =>
              \A i \in DOMAIN metadata[StorageKey(p[1], p[2])] :
                 IsOf(metadata[StorageKey(p[1], p[2])][i], p)

\* a record call leaves in the trace what it held for every other pair: no
\* more than one pair's activation changes, and none disappears
RecordKeepsOthers ==
    last'.op = "record" /\ current_trace # None =>
        /\ Cardinality({p \in KeyPairs :
                           Got(current_trace', p) # Got(current_trace, p)}) <= 1
        /\ \A p \in KeyPairs :
              Got(current_trace, p) # None => Got(current_trace', p) # None

\* C39: distinct (layer, component) pairs never share a slot: in a trace,
\* recording under one pair never overwrites or hides the activation of
\* another pair, and in the store two different pairs never have the same
\* index key or the same backing file, for component names that hold digits
\* and underscores.
C39_PairsNeverShareASlot ==
    /\ [](KeysDiffer /\ SlotsHoldTheirPair)
    /\ [][RecordKeepsOthers]_vars

\* the trace holds the activations of (1, "1_x") and (11, "_x"), and the
\* store a chunk of each in its own file
C39_Witness ==
    /\ Got(current_trace, <<1, "1_x">>) # None
    /\ Got(current_trace, <<MaxKeyLayer, "_x">>) # None
    /\ Got(current_trace, <<MaxKeyLayer, "x">>) # None
    /\ Cardinality(DOMAIN current_trace[1].activations) = 3
    /\ StorageKey(1, "1_x") \in DOMAIN metadata
    /\ StorageKey(MaxKeyLayer, "_x") \in DOMAIN metadata
    /\ {FilePath(1, "1_x"), FilePath(MaxKeyLayer, "_x")} \subseteq DOMAIN files
    /\ Cardinality(DOMAIN files) = 2


(***************************************************************************)
(* suggest_strategy against the memory limit, under SpecLimits.            *)
(***************************************************************************)
\* how constrained a strategy is: InMemory < SelectiveLayers < Streaming
Constraint(strategy) ==
    IF strategy = InMemory THEN 0
    ELSE IF strategy = Streaming THEN 2 ELSE 1

\* C40: suggest_strategy is monotone in the memory limit: for fixed num_layers
\* and hidden_size, a call with a higher memory_limit_bytes never returns a
\* more constrained strategy, in the order InMemory < SelectiveLayers <
\* Streaming, than a call with a lower one.
C40_MonotoneInLimit ==
    me.before # None /\ me.before[1].result[1] = "Ok" /\ me.result[1][1] = "Ok" =>
        LET low == me.before[1].limit
            high == me.args[3]
        IN  Less(Literal(low), Literal(high)) =>
               Constraint(me.result[1][2]) <= Constraint(me.before[1].result[2])

====
